---------------------------- MODULE Spec2Model ----------------------------
(***************************************************************************)
(* Model of the AgentWallet governance bridge (src/governance_bridge.py)  *)
(* and of the LiveTrader steps that touch the engine (src/live_trader.py).*)
(*                                                                         *)
(* Units.  Python floats are modelled as scaled integers:                 *)
(*   balances          cents       (current_balance = cents / 100)        *)
(*   current_price     mills       (current_price   = mills / 1000)       *)
(*   recommended_size  percent     (recommended_size = pct / 100)         *)
(*   ars_score, conviction, drawdown threshold   percent                  *)
(*   time              hours since the midnight before construction       *)
(* int(x) is truncation toward zero.  Optional values are sequences of    *)
(* length 0 (None) or 1.  The evaluation ids, the latency, the wallet     *)
(* snapshot of a result and the human-readable reason strings of the rule *)
(* evaluations are values no operation reads back and are left out.       *)
(*                                                                         *)
(* SpecFloat follows spend_tracker.current_balance a second time, as the   *)
(* IEEE-754 double the interpreter holds (float_balance), on wallets small *)
(* enough for the arithmetic to be exact in TLC's integers.  SpecTrader    *)
(* is the LiveTrader with its audit file behind the HTTP service; the      *)
(* aggregator (src/signals.py) and the position sizing have their own      *)
(* specifications further down, as have the functions of the stabilizer    *)
(* called on their own (SpecEntry, SpecOutliers, SpecRegime, SpecProcess), *)
(* the signal pipeline (SpecPipeline), the AgentWallet trader of           *)
(* src/kalshi_trading.py (SpecWallet) and the signal cache of src/api.py   *)
(* (SpecApi).                                                              *)
(***************************************************************************)
EXTENDS Integers, Sequences, FiniteSets, TLC

VARIABLES
    config,                   \* GovernanceEngine.config
    spend_tracker,            \* GovernanceEngine.spend_tracker (SpendTracker)
    audit_log,                \* GovernanceEngine.audit_log
    kill_switch_active,       \* GovernanceEngine.kill_switch_active
    kill_switch_reason,       \* GovernanceEngine.kill_switch_reason
    total_signals_processed,  \* GovernanceEngine.total_signals_processed
    total_blocked,            \* GovernanceEngine.total_blocked
    total_approved,           \* GovernanceEngine.total_approved
    now,                      \* datetime.utcnow(), in hours
    result,                   \* the GovernanceResult the caller holds (Optional)
    prev,                     \* the result of the evaluate_signal call made
                              \* immediately before the last one (Optional)
    lastOp,                   \* the last call that was made, get_stats aside
    outcome,                  \* what the last operation returned or raised
    dry_run,                  \* LiveTrader.dry_run
    pc,                       \* where each /run request is in run_once
    gov_result,               \* run_pipeline's gov_result, per request
    orders,                   \* the create_order calls the venue received
    errors,                   \* results["errors"] of run_pipeline, per request
    audit,                    \* LiveTrader.audit: the entries this trader
                              \* appended to its JSONL file
    positions,                \* SignalGenerator.positions
    trader_scores,            \* SignalGenerator.trader_scores
    signals,                  \* what aggregate_signals returned (Optional)
    sizing,                   \* the arguments of calculate_position_size
    final_size,               \* what calculate_position_size returned (Optional)
    call,                     \* the function being called on its own, with
                              \* its arguments (Optional)
    returned,                 \* what that call returned (Optional)
    run_frame,                \* the locals of SignalGenerator.run (Optional)
    aw_transactions,          \* the transactions the AgentWallet service holds
    kalshi_orders,            \* the place_order calls made on the Kalshi client
    trade_result,             \* what the last AgentWalletKalshiTrader call
                              \* returned or raised (Optional)
    signal_cache,             \* api.signal_cache (Optional: None before the
                              \* module is loaded)
    clock,                    \* datetime.now() of the API process, in minutes
    api_requests,             \* the get_signals requests being served
    float_balance             \* spend_tracker.current_balance as the double
                              \* the interpreter holds (Optional: followed
                              \* in SpecFloat only)

vars == <<config, spend_tracker, audit_log, kill_switch_active,
          kill_switch_reason, total_signals_processed, total_blocked,
          total_approved, now, result, prev, lastOp, outcome,
          dry_run, pc, gov_result, orders, errors, audit,
          positions, trader_scores, signals, sizing, final_size,
          call, returned,
          run_frame, aw_transactions, kalshi_orders, trade_result,
          signal_cache, clock, api_requests,
          float_balance>>

\* the balance at full precision
exact == <<float_balance>>

\* the LiveTrader around the engine
trader == <<dry_run, pc, gov_result, orders, errors, audit>>

\* the signal pipeline, the AgentWallet trader and the signal API
services == <<run_frame, aw_transactions, kalshi_orders, trade_result,
              signal_cache, clock, api_requests>>

\* the aggregator and the stabilizer, the stages before the engine, and the
\* services around them
stages == <<positions, trader_scores, signals, sizing, final_size,
            call, returned, services>>

engine == <<config, spend_tracker, audit_log, kill_switch_active,
            kill_switch_reason, total_signals_processed, total_blocked,
            total_approved>>

(***************************************************************************)
(* Bounds of the model.                                                    *)
(***************************************************************************)
MaxAudit == 3      \* audit_log entries (evaluate, activate, reset calls)
MaxRuns == 2       \* runs of LiveTrader.run_once that reach run_pipeline
ReturnUnit == 40   \* simple returns of a price series are counted in 1/40
MaxTrades == 3     \* ledger entries (recorded trades)

StartTimes == {22}             \* utcnow() at construction
Times == {22, 47}              \* the times at which operations are called
VenueBalances == {4000, 5000}  \* kalshi.get_balance(), cents
Reasons == {"manual"}          \* activate_kill_switch(reason)
Actors == {"api_request"}      \* reset_kill_switch(authorized_by)

(***************************************************************************)
(* Helpers for the Python built-ins the code uses.                         *)
(***************************************************************************)
None == << >>
Some(x) == <<x>>
IsNone(o) == o = << >>
Val(o) == o[1]

Max(a, b) == IF a >= b THEN a ELSE b
Min(a, b) == IF a <= b THEN a ELSE b

\* int(a / b) for b > 0: truncation toward zero
IntDiv(a, b) == IF a >= 0 THEN a \div b ELSE -((-a) \div b)

RECURSIVE SumAmounts(_)
SumAmounts(ts) ==
    IF ts = << >> THEN 0 ELSE Head(ts).amount_cents + SumAmounts(Tail(ts))

(***************************************************************************)
(* Configuration (GovernanceEngine.__init__'s config argument).            *)
(***************************************************************************)
\* GovernanceEngine._default_config()
default_config ==
    [ initial_balance          |-> 50000,
      max_per_trade_cents      |-> 2000,
      max_daily_spend_cents    |-> 5000,
      max_weekly_spend_cents   |-> 15000,
      max_position_contracts   |-> 50,
      min_ars_score            |-> 30,
      min_conviction           |-> 5,
      allowed_signal_strengths |-> {"good", "fair"},
      drawdown_kill_switch_pct |-> 20,
      consecutive_loss_limit   |-> 5,
      trading_hours            |-> [start |-> 6, end |-> 23] ]

\* The config LiveTrader.__init__ builds from the venue balance (cents)
live_config(real_balance_cents) ==
    [ initial_balance          |-> real_balance_cents,
      max_per_trade_cents      |-> Min(500, IntDiv(real_balance_cents * 10, 100)),
      max_daily_spend_cents    |-> Min(1000, IntDiv(real_balance_cents * 20, 100)),
      max_weekly_spend_cents   |-> Min(2500, IntDiv(real_balance_cents * 50, 100)),
      max_position_contracts   |-> 10,
      min_ars_score            |-> 30,
      min_conviction           |-> 5,
      allowed_signal_strengths |-> {"good", "fair"},
      drawdown_kill_switch_pct |-> 20,
      consecutive_loss_limit   |-> 3,
      trading_hours            |-> [start |-> 0, end |-> 24] ]

\* The venue balance LiveTrader.__init__ reads at start-up, in cents
StartBalances == {5000}

\* The engines the repository constructs
Configs == {default_config} \cup {live_config(b) : b \in StartBalances}

\* TRUE for the engine owned by a LiveTrader
IsLive == config \in {live_config(b) : b \in StartBalances}

\* A config passed to GovernanceEngine(config) by another caller: a $1.00
\* wallet whose caps and balance are a few orders wide
tight_config ==
    [ initial_balance          |-> 100,
      max_per_trade_cents      |-> 50,
      max_daily_spend_cents    |-> 60,
      max_weekly_spend_cents   |-> 90,
      max_position_contracts   |-> 50,
      min_ars_score            |-> 30,
      min_conviction           |-> 5,
      allowed_signal_strengths |-> {"good", "fair"},
      drawdown_kill_switch_pct |-> 100,
      consecutive_loss_limit   |-> 5,
      trading_hours            |-> [start |-> 0, end |-> 24] ]

\* The engines a caller of GovernanceEngine(config) works with
CallerConfigs == Configs \cup {tight_config}

(***************************************************************************)
(* SpendTracker                                                            *)
(***************************************************************************)
HoursPerDay == 24
DaysPerWeek == 7

\* Variant: the engine sets the balance and leaves the peak at 0
NewTrackerNoPeak(cfg) ==
    [ transactions       |-> << >>,
      peak_balance       |-> 0,
      current_balance    |-> cfg.initial_balance,
      total_pnl          |-> 0,
      consecutive_losses |-> 0 ]

\* SpendTracker.__init__ followed by GovernanceEngine.__init__'s two writes
NewTracker(cfg) ==
    [ transactions       |-> << >>,
      peak_balance       |-> cfg.initial_balance,
      current_balance    |-> cfg.initial_balance,
      total_pnl          |-> 0,
      consecutive_losses |-> 0 ]

\* Variant: a trade with P&L 0 leaves the loss counter as it is
record_trade_zero_keeps(tr, amount_cents, pnl, t) ==
    LET bal == tr.current_balance - amount_cents
    IN  [ transactions       |-> Append(tr.transactions,
                                     [timestamp |-> t,
                                      amount_cents |-> amount_cents,
                                      pnl |-> pnl]),
          current_balance    |-> bal,
          total_pnl          |-> tr.total_pnl + pnl,
          consecutive_losses |-> IF pnl < 0 THEN tr.consecutive_losses + 1
                                 ELSE IF pnl > 0 THEN 0
                                 ELSE tr.consecutive_losses,
          peak_balance       |-> IF bal > tr.peak_balance THEN bal
                                 ELSE tr.peak_balance ]

\* Variant: the balance is debited in the wrong unit
record_trade_unit_slip(tr, amount_cents, pnl, t) ==
    LET bal == tr.current_balance - amount_cents * 100
    IN  [ transactions       |-> Append(tr.transactions,
                                     [timestamp |-> t,
                                      amount_cents |-> amount_cents,
                                      pnl |-> pnl]),
          current_balance    |-> bal,
          total_pnl          |-> tr.total_pnl + pnl,
          consecutive_losses |-> IF pnl < 0 THEN tr.consecutive_losses + 1 ELSE 0,
          peak_balance       |-> IF bal > tr.peak_balance THEN bal
                                 ELSE tr.peak_balance ]

\* Variant: the peak is set to the balance after every trade
record_trade_peak_follows(tr, amount_cents, pnl, t) ==
    LET bal == tr.current_balance - amount_cents
    IN  [ transactions       |-> Append(tr.transactions,
                                     [timestamp |-> t,
                                      amount_cents |-> amount_cents,
                                      pnl |-> pnl]),
          current_balance    |-> bal,
          total_pnl          |-> tr.total_pnl + pnl,
          consecutive_losses |-> IF pnl < 0 THEN tr.consecutive_losses + 1 ELSE 0,
          peak_balance       |-> bal ]

\* SpendTracker.record_trade(amount_cents, pnl) at time t
record_trade(tr, amount_cents, pnl, t) ==
    LET bal == tr.current_balance - amount_cents
    IN  [ transactions       |-> Append(tr.transactions,
                                     [timestamp |-> t,
                                      amount_cents |-> amount_cents,
                                      pnl |-> pnl]),
          current_balance    |-> bal,
          total_pnl          |-> tr.total_pnl + pnl,
          consecutive_losses |-> IF pnl < 0 THEN tr.consecutive_losses + 1 ELSE 0,
          peak_balance       |-> IF bal > tr.peak_balance THEN bal
                                 ELSE tr.peak_balance ]

\* SpendTracker.get_spend_since(since)
get_spend_since(tr, since) ==
    LET Recent(t) == t.timestamp >= since
    IN  SumAmounts(SelectSeq(tr.transactions, Recent))

\* Variant: the daily sum never lets go of an entry
get_daily_spend_forever(tr, t) == SumAmounts(tr.transactions)

get_daily_spend(tr, t) == get_spend_since(tr, t - HoursPerDay)

get_weekly_spend(tr, t) == get_spend_since(tr, t - DaysPerWeek * HoursPerDay)

\* SpendTracker.get_drawdown(): the fraction num / den (den > 0)
get_drawdown(tr) ==
    IF tr.peak_balance <= 0 THEN [num |-> 0, den |-> 1]
    ELSE [num |-> tr.peak_balance - tr.current_balance, den |-> tr.peak_balance]

\* dd < pct / 100
FracLess(dd, pct) == dd.num * 100 < pct * dd.den

(***************************************************************************)
(* Signals (PredictorSignal).  The inputs of evaluate_signal: the demo's    *)
(* kinds of signal, each field drawn from a small set.                      *)
(***************************************************************************)
Sig(id, quality, ars, conv, price, size) ==
    [ signal_id        |-> id,
      direction        |-> "yes",
      entry_quality    |-> quality,
      ars_score        |-> ars,
      conviction       |-> conv,
      current_price    |-> price,
      recommended_size |-> size ]

Signals ==
    { Sig("sig_a", "good",      80, 30, 300,  4),    \* passes every filter
      Sig("sig_b", "very_late", 80, 30, 300,  4),    \* sig_a entered too late
      Sig("sig_c", "good",      80, 30, 507, 12),    \* sig_a at a higher cost
      Sig("sig_e", "fair",      22,  2, 510,  2) }   \* weak score and consensus

(***************************************************************************)
(* Rule evaluators (RuleEvaluation: rule_id, rule_name, rule_type, passed) *)
(***************************************************************************)
RuleEvaluation(id, name, type, passed) ==
    [rule_id |-> id, rule_name |-> name, rule_type |-> type, passed |-> passed]

\* Variant: the kill-switch rule never fails
check_kill_switch_blind(active) ==
    RuleEvaluation("kill_switch", "Kill Switch",
                   "KILL_SWITCH", TRUE)

check_kill_switch(active) ==
    RuleEvaluation("kill_switch", "Kill Switch",
                   "KILL_SWITCH", ~active)

\* Variant: accepts every known entry quality instead of the allow-list
check_entry_quality_any(cfg, signal) ==
    RuleEvaluation("entry_quality_filter", "Entry Quality Filter",
                   "SIGNAL_FILTER",
                   signal.entry_quality \in {"good", "fair", "late", "very_late"})

check_entry_quality(cfg, signal) ==
    RuleEvaluation("entry_quality_filter", "Entry Quality Filter",
                   "SIGNAL_FILTER",
                   signal.entry_quality \in cfg.allowed_signal_strengths)

check_ars_score(cfg, signal) ==
    RuleEvaluation("ars_score_minimum", "ARS Score Minimum",
                   "SIGNAL_FILTER",
                   signal.ars_score >= cfg.min_ars_score)

check_conviction(cfg, signal) ==
    RuleEvaluation("conviction_minimum", "Trader Conviction Minimum",
                   "SIGNAL_FILTER",
                   signal.conviction >= cfg.min_conviction)

\* Variant: the per-trade rule always passes
check_per_trade_limit_off(cfg, cost_cents) ==
    RuleEvaluation("per_trade_limit", "Per-Trade Spend Limit",
                   "PER_TRANSACTION_LIMIT", TRUE)

\* Variant: compares the cost with the daily cap
check_per_trade_limit_daily(cfg, cost_cents) ==
    RuleEvaluation("per_trade_limit", "Per-Trade Spend Limit",
                   "PER_TRANSACTION_LIMIT",
                   cost_cents <= cfg.max_daily_spend_cents)

check_per_trade_limit(cfg, cost_cents) ==
    RuleEvaluation("per_trade_limit", "Per-Trade Spend Limit",
                   "PER_TRANSACTION_LIMIT",
                   cost_cents <= cfg.max_per_trade_cents)

check_daily_limit(cfg, tr, t, cost_cents) ==
    LET current   == get_daily_spend(tr, t)
        projected == current + cost_cents
    IN  RuleEvaluation("daily_spend_limit", "Daily Spend Limit",
                   "DAILY_LIMIT",
                       projected <= cfg.max_daily_spend_cents)

check_weekly_limit(cfg, tr, t, cost_cents) ==
    LET current   == get_weekly_spend(tr, t)
        projected == current + cost_cents
    IN  RuleEvaluation("weekly_spend_limit", "Weekly Spend Limit",
                   "WEEKLY_LIMIT",
                       projected <= cfg.max_weekly_spend_cents)

\* Variant: "<=" for "<", so a drawdown equal to the threshold passes
check_drawdown_inclusive(cfg, tr) ==
    LET dd == get_drawdown(tr)
    IN  RuleEvaluation("drawdown_monitor", "Drawdown Kill Switch",
                   "KILL_SWITCH",
                       dd.num * 100 <= cfg.drawdown_kill_switch_pct * dd.den)

\* The verdict of _check_drawdown; its side effect is DrawdownTrips below
check_drawdown(cfg, tr) ==
    RuleEvaluation("drawdown_monitor", "Drawdown Kill Switch",
                   "KILL_SWITCH",
                   FracLess(get_drawdown(tr), cfg.drawdown_kill_switch_pct))

\* Variant: the drawdown monitor never sets the kill switch
DrawdownNeverTrips(cfg, tr, active) == FALSE

\* _check_drawdown's "if not passed and not self.kill_switch_active"
DrawdownTrips(cfg, tr, active) ==
    ~check_drawdown(cfg, tr).passed /\ ~active

check_consecutive_losses(cfg, tr) ==
    RuleEvaluation("consecutive_losses", "Consecutive Loss Limit",
                   "KILL_SWITCH",
                   tr.consecutive_losses < cfg.consecutive_loss_limit)

check_trading_hours(cfg, t) ==
    LET current_hour == t % HoursPerDay
    IN  RuleEvaluation("trading_hours", "Trading Hours Window",
                   "TIME_WINDOW",
                       cfg.trading_hours.start <= current_hour
                       /\ current_hour < cfg.trading_hours.end)

check_balance(tr, cost_cents) ==
    LET balance_cents == IntDiv(tr.current_balance, 1)
    IN  RuleEvaluation("sufficient_balance", "Sufficient Balance",
                   "BALANCE_CHECK",
                       cost_cents <= balance_cents)

(***************************************************************************)
(* evaluate_signal: the pure parts                                         *)
(***************************************************************************)
\* "Calculate order parameters from signal"
PriceCents(signal) == IntDiv(signal.current_price, 10)

Contracts(cfg, tr, signal) ==
    Max(1, Min(IntDiv(signal.recommended_size * tr.current_balance,
                      10 * Max(signal.current_price, 10)),
               cfg.max_position_contracts))

TotalCostCents(cfg, tr, signal) ==
    PriceCents(signal) * Contracts(cfg, tr, signal)

OrderRequest(cfg, tr, signal) ==
    [ ticker           |-> signal.signal_id,
      side             |-> signal.direction,
      action           |-> "buy",
      count            |-> Contracts(cfg, tr, signal),
      type             |-> "limit",
      price            |-> PriceCents(signal),     \* "<direction>_price"
      total_cost_cents |-> TotalCostCents(cfg, tr, signal),
      signal_id        |-> signal.signal_id ]

\* Variant: returns after the kill-switch rule when the switch is active
EvaluationsShortCircuit(cfg, tr, active, t, signal) ==
    LET cost == TotalCostCents(cfg, tr, signal)
    IN  IF active THEN << check_kill_switch(active) >>
        ELSE << check_kill_switch(active),
                check_drawdown(cfg, tr),
                check_consecutive_losses(cfg, tr),
                check_entry_quality(cfg, signal),
                check_ars_score(cfg, signal),
                check_conviction(cfg, signal),
                check_per_trade_limit(cfg, cost),
                check_daily_limit(cfg, tr, t, cost),
                check_weekly_limit(cfg, tr, t, cost),
                check_balance(tr, cost),
                check_trading_hours(cfg, t) >>

\* "Run all rules": the list evaluations, in the order of the appends
Evaluations(cfg, tr, active, t, signal) ==
    LET cost == TotalCostCents(cfg, tr, signal)
    IN  << check_kill_switch(active),
           check_drawdown(cfg, tr),
           check_consecutive_losses(cfg, tr),
           check_entry_quality(cfg, signal),
           check_ars_score(cfg, signal),
           check_conviction(cfg, signal),
           check_per_trade_limit(cfg, cost),
           check_daily_limit(cfg, tr, t, cost),
           check_weekly_limit(cfg, tr, t, cost),
           check_balance(tr, cost),
           check_trading_hours(cfg, t) >>

Failed(e) == ~e.passed

\* class GovernanceDecision(Enum): the values
GovernanceDecision ==
    {"approved", "blocked", "requires_approval", "kill_switched"}

\* Variant: a trade over a spend cap is handed to an approver
DecideWithApproval(evaluations) ==
    LET failed_rules  == SelectSeq(evaluations, Failed)
        kill_switched == \E i \in DOMAIN evaluations :
                            evaluations[i].rule_type = "KILL_SWITCH"
                            /\ ~evaluations[i].passed
        over_cap      == \E i \in DOMAIN evaluations :
                            evaluations[i].rule_type = "PER_TRANSACTION_LIMIT"
                            /\ ~evaluations[i].passed
    IN  IF kill_switched THEN "kill_switched"
        ELSE IF over_cap THEN "requires_approval"
        ELSE IF failed_rules # << >> THEN "blocked"
        ELSE "approved"

\* Variant: "blocked" is tested before "kill_switched"
DecideBlockedFirst(evaluations) ==
    LET failed_rules  == SelectSeq(evaluations, Failed)
        kill_switched == \E i \in DOMAIN evaluations :
                            evaluations[i].rule_type = "KILL_SWITCH"
                            /\ ~evaluations[i].passed
    IN  IF failed_rules # << >>
           /\ \E i \in DOMAIN evaluations :
                 evaluations[i].rule_type # "KILL_SWITCH" /\ ~evaluations[i].passed
        THEN "blocked"
        ELSE IF kill_switched THEN "kill_switched"
        ELSE "approved"

\* "Determine decision"
Decide(evaluations) ==
    LET failed_rules  == SelectSeq(evaluations, Failed)
        kill_switched == \E i \in DOMAIN evaluations :
                            evaluations[i].rule_type = "KILL_SWITCH"
                            /\ ~evaluations[i].passed
    IN  IF kill_switched THEN "kill_switched"
        ELSE IF failed_rules # << >> THEN "blocked"
        ELSE "approved"

\* Variant: the order request is kept whatever the decision
ResultOrderAlways(decision, order) == Some(order)

\* order_request=order_request if decision == APPROVED else None
ResultOrder(decision, order) ==
    IF decision = "approved" THEN Some(order) ELSE None

\* GovernanceResult(...) as evaluate_signal builds it
GovernanceResult(cfg, tr, active, t, signal) ==
    LET evaluations == Evaluations(cfg, tr, active, t, signal)
        decision    == Decide(evaluations)
    IN  [ signal           |-> signal,
          decision         |-> decision,
          rules_evaluated  |-> evaluations,
          order_request    |-> ResultOrder(decision, OrderRequest(cfg, tr, signal)),
          execution_result |-> None,
          timestamp        |-> t ]

\* [r.rule_name for r in ...]
RECURSIVE RuleNames(_)
RuleNames(es) ==
    IF es = << >> THEN << >> ELSE <<Head(es).rule_name>> \o RuleNames(Tail(es))

\* GovernanceResult.to_audit_entry()
to_audit_entry(r) ==
    [ signal_id         |-> r.signal.signal_id,
      direction         |-> r.signal.direction,
      decision          |-> r.decision,
      rules_checked     |-> Len(r.rules_evaluated),
      rules_failed      |-> Len(SelectSeq(r.rules_evaluated, Failed)),
      blocking_rules    |-> RuleNames(SelectSeq(r.rules_evaluated, Failed)),
      order_value_cents |-> IF r.order_request # None
                            THEN Some(Val(r.order_request).total_cost_cents)
                            ELSE None ]

(***************************************************************************)
(* Initial state: GovernanceEngine.__init__                                *)
(***************************************************************************)
\* The /run requests in flight at a time
Requests == {"run_a", "run_b"}

\* No /run request is running
RequestsIdle ==
    /\ pc = [r \in Requests |-> "idle"]
    /\ gov_result = [r \in Requests |-> None]
    /\ orders = << >>
    /\ errors = [r \in Requests |-> 0]

\* No LiveTrader was built around the engine
TraderIdle ==
    /\ RequestsIdle
    /\ audit = << >>

\* The balance is not followed at full precision
ExactIdle == float_balance = None

\* No pipeline run, no AgentWallet trade, no API request
ServicesIdle ==
    /\ run_frame = None
    /\ aw_transactions = << >>
    /\ kalshi_orders = << >>
    /\ trade_result = None
    /\ signal_cache = None
    /\ clock = 0
    /\ api_requests = << >>

\* The aggregator and the stabilizer have not been called
StagesIdle ==
    /\ ServicesIdle
    /\ positions = << >>
    /\ trader_scores = << >>
    /\ signals = None
    /\ sizing = None
    /\ final_size = None
    /\ call = None
    /\ returned = None

\* GovernanceEngine(config)
EngineInit(configs) ==
    /\ config \in configs
    /\ spend_tracker = NewTracker(config)
    /\ audit_log = << >>
    /\ kill_switch_active = FALSE
    /\ kill_switch_reason = ""
    /\ total_signals_processed = 0
    /\ total_blocked = 0
    /\ total_approved = 0
    /\ now \in StartTimes
    /\ result = None
    /\ prev = None
    /\ lastOp = "init"
    /\ outcome = "none"

Init ==
    /\ EngineInit(Configs)
    /\ dry_run = FALSE
    /\ TraderIdle
    /\ ExactIdle
    /\ StagesIdle

\* GovernanceEngine(config) with the config of any caller
CallerInit ==
    /\ EngineInit(CallerConfigs)
    /\ dry_run = FALSE
    /\ TraderIdle
    /\ ExactIdle
    /\ StagesIdle

(***************************************************************************)
(* GovernanceEngine operations                                             *)
(***************************************************************************)
\* GovernanceEngine.evaluate_signal(signal)
evaluate_signal(signal) ==
    LET r == GovernanceResult(config, spend_tracker,
                              kill_switch_active, now, signal)
        trips == DrawdownTrips(config, spend_tracker, kill_switch_active)
    IN  /\ Len(audit_log) < MaxAudit
        /\ total_signals_processed' = total_signals_processed + 1
        /\ kill_switch_active' = (kill_switch_active \/ trips)
        /\ kill_switch_reason' = IF trips THEN "Drawdown exceeded threshold"
                                 ELSE kill_switch_reason
        /\ total_approved' = IF r.decision = "approved"
                             THEN total_approved + 1 ELSE total_approved
        /\ total_blocked' = IF r.decision = "approved"
                            THEN total_blocked ELSE total_blocked + 1
        /\ audit_log' = Append(audit_log, to_audit_entry(r))
        /\ result' = Some(r)
        /\ prev' = IF lastOp = "evaluate_signal" THEN result ELSE None
        /\ lastOp' = "evaluate_signal"
        /\ outcome' = "returned"
        /\ UNCHANGED <<config, spend_tracker, now>>

\* Variant: the decision is not looked at
RecordableAll(r) == TRUE

\* Variant: only kill_switched results are turned away
RecordableUnlessKilled(r) == r.decision # "kill_switched"

\* "if result.decision != GovernanceDecision.APPROVED: return result"
Recordable(r) == r.decision = "approved"

\* Variant: every execution record carries the same order id
ExecutionResultSameId(tr, cost, t) ==
    [ status     |-> "executed",
      order_id   |-> 1,
      filled_at  |-> t,
      cost_cents |-> cost ]

\* The execution_result execute_approved_trade stores; the order id is a
\* uuid4(), modelled as a number no earlier record of this engine carries
ExecutionResult(tr, cost, t) ==
    [ status     |-> "executed",
      order_id   |-> Len(tr.transactions) + 1,
      filled_at  |-> t,
      cost_cents |-> cost ]

\* Variant: nothing is recorded while the kill switch is active
execute_approved_trade_rechecked ==
    /\ result # None
    /\ LET r == Val(result)
       IN  IF ~Recordable(r) \/ kill_switch_active
           THEN /\ outcome' = "returned"
                /\ UNCHANGED <<spend_tracker, result>>
           ELSE IF r.order_request = None
           THEN /\ outcome' = "raised"
                /\ UNCHANGED <<spend_tracker, result>>
           ELSE LET cost == Val(r.order_request).total_cost_cents
                IN  /\ Len(spend_tracker.transactions) < MaxTrades
                    /\ spend_tracker' = record_trade(spend_tracker, cost, 0, now)
                    /\ result' = Some([r EXCEPT !.execution_result =
                                   Some(ExecutionResult(spend_tracker, cost, now))])
                    /\ outcome' = "returned"
    /\ prev' = None
    /\ lastOp' = "execute_approved_trade"
    /\ UNCHANGED <<config, audit_log, kill_switch_active, kill_switch_reason,
                   total_signals_processed, total_blocked, total_approved,
                   now>>

\* GovernanceEngine.execute_approved_trade(result), result being the
\* GovernanceResult the caller holds.  result.order_request[...] raises
\* TypeError when order_request is None.
execute_approved_trade ==
    /\ result # None
    /\ LET r == Val(result)
       IN  IF ~Recordable(r)
           THEN /\ outcome' = "returned"
                /\ UNCHANGED <<spend_tracker, result>>
           ELSE IF r.order_request = None
           THEN /\ outcome' = "raised"
                /\ UNCHANGED <<spend_tracker, result>>
           ELSE LET cost == Val(r.order_request).total_cost_cents
                IN  /\ Len(spend_tracker.transactions) < MaxTrades
                    /\ spend_tracker' = record_trade(spend_tracker, cost, 0, now)
                    /\ result' = Some([r EXCEPT !.execution_result =
                                   Some(ExecutionResult(spend_tracker, cost, now))])
                    /\ outcome' = "returned"
    /\ prev' = None
    /\ lastOp' = "execute_approved_trade"
    /\ UNCHANGED <<config, audit_log, kill_switch_active, kill_switch_reason,
                   total_signals_processed, total_blocked, total_approved,
                   now>>

\* Variant: the switch is set without an audit event
activate_kill_switch_silent(reason) ==
    /\ Len(audit_log) < MaxAudit
    /\ kill_switch_active' = TRUE
    /\ kill_switch_reason' = reason
    /\ prev' = None
    /\ lastOp' = "activate_kill_switch"
    /\ outcome' = "returned"
    /\ UNCHANGED <<config, spend_tracker, audit_log, total_signals_processed,
                   total_blocked, total_approved, now, result>>

\* GovernanceEngine.activate_kill_switch(reason)
activate_kill_switch(reason) ==
    /\ Len(audit_log) < MaxAudit
    /\ kill_switch_active' = TRUE
    /\ kill_switch_reason' = reason
    /\ audit_log' = Append(audit_log, [ event  |-> "KILL_SWITCH_ACTIVATED",
                                        reason |-> reason ])
    /\ prev' = None
    /\ lastOp' = "activate_kill_switch"
    /\ outcome' = "returned"
    /\ UNCHANGED <<config, spend_tracker, total_signals_processed,
                   total_blocked, total_approved, now, result>>

\* Variant: the reset writes its audit event and leaves the switch as it is
reset_kill_switch_noop(authorized_by) ==
    /\ Len(audit_log) < MaxAudit
    /\ audit_log' = Append(audit_log, [ event         |-> "KILL_SWITCH_RESET",
                                        authorized_by |-> authorized_by ])
    /\ prev' = None
    /\ lastOp' = "reset_kill_switch"
    /\ outcome' = "returned"
    /\ UNCHANGED <<config, spend_tracker, kill_switch_active,
                   kill_switch_reason, total_signals_processed,
                   total_blocked, total_approved, now, result>>

\* Variant: the reset also takes the current balance as the new peak
reset_kill_switch_rebase(authorized_by) ==
    /\ Len(audit_log) < MaxAudit
    /\ kill_switch_active' = FALSE
    /\ kill_switch_reason' = ""
    /\ spend_tracker' = [spend_tracker EXCEPT
                            !.peak_balance = spend_tracker.current_balance]
    /\ audit_log' = Append(audit_log, [ event         |-> "KILL_SWITCH_RESET",
                                        authorized_by |-> authorized_by ])
    /\ prev' = None
    /\ lastOp' = "reset_kill_switch"
    /\ outcome' = "returned"
    /\ UNCHANGED <<config, total_signals_processed,
                   total_blocked, total_approved, now, result>>

\* GovernanceEngine.reset_kill_switch(authorized_by)
reset_kill_switch(authorized_by) ==
    /\ Len(audit_log) < MaxAudit
    /\ kill_switch_active' = FALSE
    /\ kill_switch_reason' = ""
    /\ audit_log' = Append(audit_log, [ event         |-> "KILL_SWITCH_RESET",
                                        authorized_by |-> authorized_by ])
    /\ prev' = None
    /\ lastOp' = "reset_kill_switch"
    /\ outcome' = "returned"
    /\ UNCHANGED <<config, spend_tracker, total_signals_processed,
                   total_blocked, total_approved, now, result>>

\* GovernanceEngine.get_stats(): builds a dict from reads, writes nothing
get_stats ==
    UNCHANGED vars

(***************************************************************************)
(* LiveTrader steps on its engine                                          *)
(***************************************************************************)
\* LiveTrader.run_once, "Refresh balance": the venue reports balance cents
run_once_refresh(balance) ==
    /\ IsLive
    /\ spend_tracker' = [spend_tracker EXCEPT !.current_balance = balance]
    /\ prev' = None
    /\ lastOp' = "run_once_refresh"
    /\ outcome' = "returned"
    /\ UNCHANGED <<config, audit_log, kill_switch_active, kill_switch_reason,
                   total_signals_processed, total_blocked, total_approved,
                   now, result>>

\* LiveTrader.run_pipeline, live mode, after create_order returned:
\* "Record in governance spend tracker"
run_pipeline_record ==
    /\ IsLive
    /\ lastOp = "evaluate_signal"
    /\ result # None
    /\ Val(result).decision = "approved"
    /\ Len(spend_tracker.transactions) < MaxTrades
    /\ spend_tracker' = record_trade(spend_tracker,
                            Val(Val(result).order_request).total_cost_cents,
                            0, now)
    /\ prev' = None
    /\ lastOp' = "run_pipeline_record"
    /\ outcome' = "returned"
    /\ UNCHANGED <<config, audit_log, kill_switch_active, kill_switch_reason,
                   total_signals_processed, total_blocked, total_approved,
                   now, result>>

(***************************************************************************)
(* The clock                                                               *)
(***************************************************************************)
\* Time passes between two operations: lastOp stays the last call made
Tick(t) ==
    /\ t > now
    /\ now' = t
    /\ UNCHANGED <<engine, result, prev, lastOp, outcome>>

Next ==
    \/ \E s \in Signals : evaluate_signal(s) /\ UNCHANGED <<trader, stages, exact>>
    \/ execute_approved_trade /\ UNCHANGED <<trader, stages, exact>>
    \/ \E reason \in Reasons :
          activate_kill_switch(reason) /\ UNCHANGED <<trader, stages, exact>>
    \/ \E by \in Actors : reset_kill_switch(by) /\ UNCHANGED <<trader, stages, exact>>
    \/ get_stats
    \/ \E b \in VenueBalances :
          run_once_refresh(b) /\ UNCHANGED <<trader, stages, exact>>
    \/ run_pipeline_record /\ UNCHANGED <<trader, stages, exact>>
    \/ \E t \in Times : Tick(t) /\ UNCHANGED <<trader, stages, exact>>

Spec == Init /\ [][Next]_vars

(***************************************************************************)
(* The engine under a caller that evaluates and records over a week: the  *)
(* clock readings include the edges of the 24-hour and the 7-day window.   *)
(***************************************************************************)
WindowTimes == {22, 46, 47, 191}

NextWindows ==
    \/ \E s \in Signals : evaluate_signal(s) /\ UNCHANGED <<trader, stages, exact>>
    \/ execute_approved_trade /\ UNCHANGED <<trader, stages, exact>>
    \/ \E t \in WindowTimes : Tick(t) /\ UNCHANGED <<trader, stages, exact>>

SpecWindows == Init /\ [][NextWindows]_vars

(***************************************************************************)
(* The engine under a caller that keeps to the protocol: every approved    *)
(* result is recorded with execute_approved_trade before the next          *)
(* evaluate_signal, and no result is recorded twice.                       *)
(***************************************************************************)
\* the caller holds an approved result it has not recorded
Pending ==
    /\ result # None
    /\ Val(result).decision = "approved"
    /\ Val(result).execution_result = None

NextProtocol ==
    \/ \E s \in Signals :
          ~Pending /\ evaluate_signal(s) /\ UNCHANGED <<trader, stages, exact>>
    \/ Pending /\ execute_approved_trade /\ UNCHANGED <<trader, stages, exact>>
    \/ \E reason \in Reasons :
          activate_kill_switch(reason) /\ UNCHANGED <<trader, stages, exact>>
    \/ \E by \in Actors : reset_kill_switch(by) /\ UNCHANGED <<trader, stages, exact>>
    \/ \E t \in WindowTimes : Tick(t) /\ UNCHANGED <<trader, stages, exact>>

SpecProtocol == CallerInit /\ [][NextProtocol]_vars

(***************************************************************************)
(* The engine under a caller bound by no protocol: it evaluates, records   *)
(* the result it holds as often as it likes, and works the kill switch.    *)
(***************************************************************************)
NextCaller ==
    \/ \E s \in Signals : evaluate_signal(s) /\ UNCHANGED <<trader, stages, exact>>
    \/ execute_approved_trade /\ UNCHANGED <<trader, stages, exact>>
    \/ \E reason \in Reasons :
          activate_kill_switch(reason) /\ UNCHANGED <<trader, stages, exact>>
    \/ \E by \in Actors : reset_kill_switch(by) /\ UNCHANGED <<trader, stages, exact>>

SpecCaller == CallerInit /\ [][NextCaller]_vars

(***************************************************************************)
(* The engine with a caller that also reports closed trades to the spend   *)
(* tracker: SpendTracker.record_trade(amount_cents, pnl) with the realized *)
(* P&L of the trade, in cents.                                             *)
(***************************************************************************)
LedgerAmounts == {100}     \* amount_cents of a reported trade
PnLs == {-50, 0, 50}       \* pnl of a reported trade: loss, flat, gain

\* spend_tracker.record_trade(amount_cents, pnl), called on the tracker
spend_tracker_record_trade(amount_cents, pnl) ==
    /\ Len(spend_tracker.transactions) < MaxTrades
    /\ spend_tracker' = record_trade(spend_tracker, amount_cents, pnl, now)
    /\ prev' = None
    /\ lastOp' = "record_trade"
    /\ outcome' = "returned"
    /\ UNCHANGED <<config, audit_log, kill_switch_active, kill_switch_reason,
                   total_signals_processed, total_blocked, total_approved,
                   now, result>>

NextLedger ==
    \/ \E s \in Signals : evaluate_signal(s) /\ UNCHANGED <<trader, stages, exact>>
    \/ execute_approved_trade /\ UNCHANGED <<trader, stages, exact>>
    \/ \E a \in LedgerAmounts, p \in PnLs :
          spend_tracker_record_trade(a, p) /\ UNCHANGED <<trader, stages, exact>>

SpecLedger == Init /\ [][NextLedger]_vars

(***************************************************************************)
(* The balance at full precision.  current_balance is a Python float, an   *)
(* IEEE-754 double: 53 significant bits, round to nearest, ties to even.   *)
(* A double x close to a whole number of cents is held exactly as          *)
(*     [cents |-> c, drift |-> t]   with   x = (c + t / 2^60) / 100,       *)
(* c and t integers.  Every double of magnitude >= 2^-8 is a multiple of   *)
(* 2^-60, and so is every difference of two of them, so t is an integer;   *)
(* the doubles of one binade [2^e, 2^(e+1)) are the values whose           *)
(* c * 2^60 + t is a multiple of Ulp(e) = 100 * 2^(e+8).                   *)
(***************************************************************************)
RECURSIVE Pow2(_)
Pow2(k) == IF k = 0 THEN 1 ELSE 2 * Pow2(k - 1)

\* 2^k mod m
RECURSIVE Pow2Mod(_, _)
Pow2Mod(k, m) == IF k = 0 THEN 1 % m ELSE (2 * Pow2Mod(k - 1, m)) % m

Double(c, t) == [cents |-> c, drift |-> t]

\* floor(log2 x) for x = (c + t / 2^60) / 100 with c >= 1, searched upwards
RECURSIVE BinadeFrom(_, _, _)
BinadeFrom(c, t, e) ==
    IF \/ 100 * Pow2(e + 8) < c * 128
       \/ (100 * Pow2(e + 8) = c * 128 /\ t >= 0)
    THEN BinadeFrom(c, t, e + 1)
    ELSE e

Binade(c, t) == BinadeFrom(c, t, -7)

\* the spacing of the doubles in the binade e, in units of 2^-60 cents
Ulp(e) == 100 * Pow2(e + 8)

\* (c * 2^60) mod (m * 2^(e+8)) for m = 100 or 200
CentsMod(c, e, m) == Pow2(e + 8) * (((c % m) * Pow2Mod(52 - e, m)) % m)

\* the double nearest to (c + t / 2^60) / 100 > 0, ties to even
RoundPositive(c, t) ==
    IF c = 0 THEN Double(0, t)
    ELSE LET e == Binade(c, t)
             r == (CentsMod(c, e, 100) + t) % Ulp(e)
             q == (CentsMod(c, e, 200) + t - r) % (2 * Ulp(e))
         IN  IF r = 0 THEN Double(c, t)
             ELSE IF 2 * r < Ulp(e) THEN Double(c, t - r)
             ELSE IF 2 * r > Ulp(e) THEN Double(c, t - r + Ulp(e))
             ELSE IF q = 0 THEN Double(c, t - r)
             ELSE Double(c, t - r + Ulp(e))

\* the double nearest to (c + t / 2^60) / 100
RoundDouble(c, t) ==
    IF c > 0 \/ (c = 0 /\ t >= 0) THEN RoundPositive(c, t)
    ELSE LET m == RoundPositive(-c, -t) IN Double(-m.cents, -m.drift)

\* amount_cents / 100
FloatOfCents(n) == RoundDouble(n, 0)

\* x - y
FloatSub(x, y) == RoundDouble(x.cents - y.cents, x.drift - y.drift)

\* x < 0
FloatNegative(x) == x.cents < 0 \/ (x.cents = 0 /\ x.drift < 0)

RECURSIVE ILog2(_)
ILog2(c) == IF c < 2 THEN 0 ELSE 1 + ILog2(c \div 2)

\* int(x * 100) for x >= 0: the product c + t / 2^60 is rounded to a double
\* and truncated
IntOfTimes100Positive(c, t) ==
    IF c = 0 \/ t >= 0 THEN c
    ELSE LET k == IF Pow2(ILog2(c)) = c THEN ILog2(c) - 1 ELSE ILog2(c)
         IN  IF 2 * (-t) <= Pow2(k + 8) THEN c ELSE c - 1

\* int(x * 100)
IntOfTimes100(x) ==
    IF ~FloatNegative(x) THEN IntOfTimes100Positive(x.cents, x.drift)
    ELSE -IntOfTimes100Positive(-x.cents, -x.drift)

(***************************************************************************)
(* The engine of a $0.30 wallet under the protocol of SpecProtocol, with   *)
(* the balance followed at full precision.  evaluate_signal is taken where *)
(* the cents _check_balance computes from the double, int(balance * 100),  *)
(* are the cents of the spend tracker of this model.                       *)
(***************************************************************************)
\* A config passed to GovernanceEngine(config): $0.30, caps out of the way
penny_config ==
    [ initial_balance          |-> 30,
      max_per_trade_cents      |-> 2000,
      max_daily_spend_cents    |-> 5000,
      max_weekly_spend_cents   |-> 15000,
      max_position_contracts   |-> 50,
      min_ars_score            |-> 30,
      min_conviction           |-> 5,
      allowed_signal_strengths |-> {"good", "fair"},
      drawdown_kill_switch_pct |-> 200,
      consecutive_loss_limit   |-> 5,
      trading_hours            |-> [start |-> 0, end |-> 24] ]

\* GovernanceEngine(config) on a $1.00 wallet with the live thresholds:
\* the peak is 1.0, so get_drawdown's division by the peak is exact
dollar_config ==
    [ initial_balance          |-> 100,
      max_per_trade_cents      |-> 500,
      max_daily_spend_cents    |-> 1000,
      max_weekly_spend_cents   |-> 2500,
      max_position_contracts   |-> 10,
      min_ars_score            |-> 30,
      min_conviction           |-> 5,
      allowed_signal_strengths |-> {"good", "fair"},
      drawdown_kill_switch_pct |-> 20,
      consecutive_loss_limit   |-> 3,
      trading_hours            |-> [start |-> 0, end |-> 24] ]

\* Signals of one contract each (recommended_size 0.0) at 13, 17 and 10
\* cents
PennySignals ==
    { Sig("sig_f", "good", 80, 30, 130, 0),
      Sig("sig_g", "good", 80, 30, 170, 0),
      Sig("sig_h", "good", 80, 30, 100, 0) }

\* int(self.spend_tracker.current_balance * 100) is the model's balance
BalanceAgrees ==
    IntOfTimes100(Val(float_balance)) = spend_tracker.current_balance

\* self.current_balance -= amount_cents / 100
FloatDebit(x, amount_cents) == FloatSub(x, FloatOfCents(amount_cents))

\* x < y
FloatLess(x, y) ==
    \/ x.cents < y.cents
    \/ (x.cents = y.cents /\ x.drift < y.drift)

\* _check_drawdown's "passed = current_dd < threshold" on the doubles.  On
\* the $1.00 wallet the drawdown is the double 1.0 - current_balance; on the
\* $0.30 wallet the threshold is 2.0 and the quotient stays below 1.01, so
\* its rounding decides nothing.
FloatDrawdownPasses ==
    IF config = dollar_config
    THEN FloatLess(FloatSub(FloatOfCents(config.initial_balance),
                            Val(float_balance)),
                   FloatOfCents(config.drawdown_kill_switch_pct))
    ELSE check_drawdown(config, spend_tracker).passed

\* the drawdown rule in cents decides as the rule on the doubles does
DrawdownAgrees ==
    FloatDrawdownPasses <=> check_drawdown(config, spend_tracker).passed

FloatInit ==
    /\ EngineInit({penny_config, dollar_config})
    /\ dry_run = FALSE
    /\ TraderIdle
    /\ StagesIdle
    /\ float_balance = Some(FloatOfCents(config.initial_balance))

NextFloat ==
    \/ \E s \in PennySignals :
          /\ ~Pending
          /\ BalanceAgrees
          /\ DrawdownAgrees
          /\ evaluate_signal(s)
          /\ UNCHANGED <<trader, stages, exact>>
    \/ /\ Pending
       /\ execute_approved_trade
       /\ float_balance' =
             Some(FloatDebit(Val(float_balance),
                             Val(Val(result).order_request).total_cost_cents))
       /\ UNCHANGED <<trader, stages>>
    \/ \E t \in WindowTimes : Tick(t) /\ UNCHANGED <<trader, stages, exact>>

SpecFloat == FloatInit /\ [][NextFloat]_vars

(***************************************************************************)
(* LiveTrader behind the HTTP service (create_app).  The endpoints are     *)
(* plain functions, which the server runs on worker threads: the /run      *)
(* requests share one LiveTrader and one engine and interleave wherever a  *)
(* thread can be suspended, in particular during a call of the venue.      *)
(* pc[r]: "idle"      no run_once in progress for r                        *)
(*        "pipeline"  in run_pipeline's loop, between two signals          *)
(*        "approved"  evaluate_signal returned approved, order not sent    *)
(*        "ordered"   create_order returned, trade not yet recorded        *)
(***************************************************************************)
\* The signals run_pipeline evaluates: the price is the venue's, whole cents
LiveSignals == {s \in Signals : s.current_price % 10 = 0}

\* Variant: the dry-run flag is not consulted
AfterEvaluateLive(dry, decision) ==
    IF decision = "approved" THEN "approved" ELSE "pipeline"

\* "if gov_result.decision == APPROVED: ... if self.dry_run: ... else: ..."
AfterEvaluate(dry, decision) ==
    IF decision = "approved" /\ ~dry THEN "approved" ELSE "pipeline"

\* self.audit.log({"event": event, "signal": ..., "governance": ...})
AuditEntry(event, signal_id) == [event |-> event, signal |-> signal_id]

\* self.audit.log({"event": "RUN_COMPLETE", "summary": results})
RunComplete(r) == [event |-> "RUN_COMPLETE", summary |-> [errors |-> errors[r]]]

\* the entries of one kind in the file
Logged(event) == {i \in DOMAIN audit : audit[i].event = event}

\* the runs that have started and whose signal list was not empty, at most
Runs == Cardinality(Logged("RUN_COMPLETE"))
           + Cardinality({r \in Requests : pc[r] # "idle"})

\* POST /run -> LiveTrader.run_once: the balance refresh
run_once(r, balance) ==
    /\ pc[r] = "idle"
    /\ Runs < MaxRuns
    /\ run_once_refresh(balance)
    /\ pc' = [pc EXCEPT ![r] = "pipeline"]
    /\ UNCHANGED <<dry_run, gov_result, orders, errors, audit, stages, exact>>

\* what run_pipeline logs when evaluate_signal has returned:
\* DRY_RUN_APPROVED, SIGNAL_BLOCKED, or nothing before the order is sent
AfterEvaluateLog(dry, decision, signal_id) ==
    IF decision # "approved" THEN << AuditEntry("SIGNAL_BLOCKED", signal_id) >>
    ELSE IF dry THEN << AuditEntry("DRY_RUN_APPROVED", signal_id) >>
    ELSE << >>

\* run_pipeline, "Step 3: Governance evaluation" of one signal
run_pipeline_evaluate(r, signal) ==
    /\ pc[r] = "pipeline"
    /\ evaluate_signal(signal)
    /\ gov_result' = [gov_result EXCEPT ![r] = result']
    /\ pc' = [pc EXCEPT ![r] = AfterEvaluate(dry_run, Val(result').decision)]
    /\ audit' = audit \o AfterEvaluateLog(dry_run, Val(result').decision,
                                          signal.signal_id)
    /\ UNCHANGED <<dry_run, orders, errors, stages, exact>>

\* the arguments of self.kalshi.create_order(...)
CreateOrder(r, ok) ==
    LET order == Val(Val(gov_result[r]).order_request)
    IN  [ request   |-> r,
          signal_id |-> order.signal_id,
          count     |-> order.count,
          ok        |-> ok ]

\* run_pipeline, "REAL TRADE": create_order returned
run_pipeline_create_order(r) ==
    /\ pc[r] = "approved"
    /\ orders' = Append(orders, CreateOrder(r, TRUE))
    /\ pc' = [pc EXCEPT ![r] = "ordered"]
    /\ UNCHANGED <<engine, now, result, prev, lastOp, outcome,
                   dry_run, gov_result, errors, audit, stages, exact>>

\* Variant: a failed order is recorded in the spend tracker all the same
run_pipeline_order_failed_recorded(r) ==
    /\ pc[r] = "approved"
    /\ Len(spend_tracker.transactions) < MaxTrades
    /\ orders' = Append(orders, CreateOrder(r, FALSE))
    /\ errors' = [errors EXCEPT ![r] = @ + 1]
    /\ audit' = Append(audit, AuditEntry("TRADE_FAILED",
                                Val(gov_result[r]).signal.signal_id))
    /\ spend_tracker' =
          record_trade(spend_tracker,
                       Val(Val(gov_result[r]).order_request).total_cost_cents,
                       0, now)
    /\ pc' = [pc EXCEPT ![r] = "pipeline"]
    /\ UNCHANGED <<config, audit_log, kill_switch_active, kill_switch_reason,
                   total_signals_processed, total_blocked, total_approved,
                   now, result, prev, lastOp, outcome,
                   dry_run, gov_result, stages, exact>>

\* run_pipeline, "except Exception": create_order raised
run_pipeline_order_failed(r) ==
    /\ pc[r] = "approved"
    /\ orders' = Append(orders, CreateOrder(r, FALSE))
    /\ errors' = [errors EXCEPT ![r] = @ + 1]
    /\ audit' = Append(audit, AuditEntry("TRADE_FAILED",
                                Val(gov_result[r]).signal.signal_id))
    /\ pc' = [pc EXCEPT ![r] = "pipeline"]
    /\ UNCHANGED <<engine, now, result, prev, lastOp, outcome,
                   dry_run, gov_result, stages, exact>>

\* run_pipeline, "Record in governance spend tracker"
run_pipeline_record_trade(r) ==
    /\ pc[r] = "ordered"
    /\ Len(spend_tracker.transactions) < MaxTrades
    /\ spend_tracker' =
          record_trade(spend_tracker,
                       Val(Val(gov_result[r]).order_request).total_cost_cents,
                       0, now)
    /\ audit' = Append(audit, AuditEntry("TRADE_EXECUTED",
                                Val(gov_result[r]).signal.signal_id))
    /\ pc' = [pc EXCEPT ![r] = "pipeline"]
    /\ prev' = None
    /\ lastOp' = "run_pipeline_record"
    /\ outcome' = "returned"
    /\ UNCHANGED <<config, audit_log, kill_switch_active, kill_switch_reason,
                   total_signals_processed, total_blocked, total_approved,
                   now, result, dry_run, gov_result, orders, errors, stages, exact>>

\* run_once, "if not signals: return": fetch_signals gave nothing
run_once_no_signals(r) ==
    /\ pc[r] = "pipeline"
    /\ gov_result[r] = None
    /\ pc' = [pc EXCEPT ![r] = "idle"]
    /\ UNCHANGED <<engine, now, result, prev, lastOp, outcome,
                   dry_run, gov_result, orders, errors, audit, stages, exact>>

\* run_pipeline's loop is over, run_once logs the summary and returns it
run_once_return(r) ==
    /\ pc[r] = "pipeline"
    /\ audit' = Append(audit, RunComplete(r))
    /\ pc' = [pc EXCEPT ![r] = "idle"]
    /\ gov_result' = [gov_result EXCEPT ![r] = None]
    /\ errors' = [errors EXCEPT ![r] = 0]
    /\ UNCHANGED <<engine, now, result, prev, lastOp, outcome,
                   dry_run, orders, stages, exact>>

\* LiveTrader(dry_run), as get_trader or main builds it
TraderInit ==
    /\ EngineInit({live_config(b) : b \in StartBalances})
    /\ dry_run \in BOOLEAN
    /\ RequestsIdle
    /\ audit = << [event |-> "TRADER_STARTED"] >>
    /\ ExactIdle
    /\ StagesIdle

NextTrader ==
    \/ \E r \in Requests, b \in VenueBalances : run_once(r, b)
    \/ \E r \in Requests, s \in LiveSignals : run_pipeline_evaluate(r, s)
    \/ \E r \in Requests : run_pipeline_create_order(r)
    \/ \E r \in Requests : run_pipeline_order_failed(r)
    \/ \E r \in Requests : run_pipeline_record_trade(r)
    \/ \E r \in Requests : run_once_no_signals(r)
    \/ \E r \in Requests : run_once_return(r)

SpecTrader == TraderInit /\ [][NextTrader]_vars

(***************************************************************************)
(* The consensus aggregator: SignalGenerator.aggregate_signals             *)
(* (src/signals.py).  Share quantities and dollar values are integers,     *)
(* prices are in cents, quotients are kept as fractions [num, den].        *)
(* self.positions, a dict, is the sequence of its items in insertion order.*)
(***************************************************************************)
Frac(n, d) == [num |-> n, den |-> d]

\* a < b for fractions with positive denominators
FracLT(a, b) == a.num * b.den < b.num * a.den

\* polymarket.Position, the fields aggregate_signals reads
Position(slug, side, size, avg_price, current_price, current_value) ==
    [ market_slug   |-> slug,
      outcome       |-> side,
      size          |-> size,
      avg_price     |-> avg_price,
      current_price |-> current_price,
      current_value |-> current_value ]

\* The positions a wallet can hold in the inputs
PositionKinds ==
    { Position("m1", "Yes", 10, 40, 60,  600),
      Position("m1", "Yes",  0,  0, 60,  200),
      Position("m2", "No",  12, 50, 50,  600) }

\* What get_trader_positions returns for one wallet: up to two positions
PositionLists ==
    {<< >>} \cup {<<a>> : a \in PositionKinds}
            \cup {<<a, b>> : a, b \in PositionKinds}

Wallets == <<"w1", "w2", "w3">>

\* self.positions after fetch_positions: the first n wallets, in order
PositionInputs ==
    UNION { { [i \in 1..n |-> [wallet |-> Wallets[i], positions |-> f[i]]] :
                f \in [1..n -> PositionLists] } : n \in 0..Len(Wallets) }

\* self.trader_scores: every wallet fetch_positions asked for has a score
TraderScores ==
    [i \in DOMAIN Wallets |-> [wallet |-> Wallets[i], username |-> Wallets[i]]]

\* next((t for t in self.trader_scores if t.wallet == wallet), None)
FindTrader(scores, wallet) ==
    LET Hit(t) == t.wallet = wallet
        hits == SelectSeq(scores, Hit)
    IN  IF hits = << >> THEN None ELSE Some(Head(hits))

\* the {'trader', 'position'} entries one wallet adds, in order
RECURSIVE WalletHoldings(_, _)
WalletHoldings(t, ps) ==
    IF ps = << >> THEN << >>
    ELSE <<[trader |-> t, position |-> Head(ps)]>> \o WalletHoldings(t, Tail(ps))

\* every entry appended to market_positions, in the order of the two loops
RECURSIVE AllHoldings(_, _)
AllHoldings(scores, items) ==
    IF items = << >> THEN << >>
    ELSE LET t == FindTrader(scores, Head(items).wallet)
         IN  (IF t = None THEN << >>
              ELSE WalletHoldings(Val(t), Head(items).positions))
             \o AllHoldings(scores, Tail(items))

KeyOf(h) == <<h.position.market_slug, h.position.outcome>>

\* market_positions.keys(): the keys in the order of first insertion
RECURSIVE GroupKeys(_, _)
GroupKeys(hs, seen) ==
    IF hs = << >> THEN << >>
    ELSE IF KeyOf(Head(hs)) \in seen THEN GroupKeys(Tail(hs), seen)
    ELSE <<KeyOf(Head(hs))>> \o GroupKeys(Tail(hs), seen \cup {KeyOf(Head(hs))})

\* market_positions[key]
Group(hs, key) ==
    LET In(h) == KeyOf(h) = key
    IN  SelectSeq(hs, In)

RECURSIVE SumValue(_)
SumValue(hs) ==
    IF hs = << >> THEN 0
    ELSE Head(hs).position.current_value + SumValue(Tail(hs))

RECURSIVE SumShares(_)
SumShares(hs) ==
    IF hs = << >> THEN 0 ELSE Head(hs).position.size + SumShares(Tail(hs))

RECURSIVE SumPaid(_)
SumPaid(hs) ==
    IF hs = << >> THEN 0
    ELSE Head(hs).position.avg_price * Head(hs).position.size + SumPaid(Tail(hs))

RECURSIVE Usernames(_)
Usernames(hs) ==
    IF hs = << >> THEN << >>
    ELSE <<Head(hs).trader.username>> \o Usernames(Tail(hs))

\* Signal(...) as aggregate_signals builds it for one group
Signal(key, holdings, total_traders) ==
    LET total_shares == SumShares(holdings)
        avg_entry == IF total_shares > 0
                     THEN Frac(SumPaid(holdings), total_shares)
                     ELSE Frac(0, 1)
        current_price == Head(holdings).position.current_price
    IN  [ market_slug     |-> key[1],
          direction       |-> key[2],
          conviction      |-> Frac(Len(holdings), total_traders),
          num_traders     |-> Len(holdings),
          total_size      |-> SumValue(holdings),
          avg_entry_price |-> avg_entry,
          current_price   |-> current_price,
          expected_edge   |-> IF avg_entry.num > 0
                              THEN Frac(current_price * avg_entry.den - avg_entry.num,
                                        avg_entry.num)
                              ELSE Frac(0, 1),
          traders         |-> Usernames(holdings) ]

\* the loop over market_positions.items(): the two "continue" filters
RECURSIVE GroupSignals(_, _, _, _, _)
GroupSignals(keys, hs, total_traders, min_traders, min_conviction) ==
    IF keys = << >> THEN << >>
    ELSE LET holdings == Group(hs, Head(keys))
             rest == GroupSignals(Tail(keys), hs, total_traders,
                                  min_traders, min_conviction)
         IN  IF Len(holdings) < min_traders THEN rest
             ELSE IF FracLT(Frac(Len(holdings), total_traders),
                            Frac(min_conviction, 100)) THEN rest
             ELSE <<Signal(Head(keys), holdings, total_traders)>> \o rest

\* x sorts before y under key=(conviction, total_size), reverse=True
SortsBefore(x, y) ==
    \/ FracLT(y.conviction, x.conviction)
    \/ /\ ~FracLT(x.conviction, y.conviction)
       /\ x.total_size > y.total_size

\* Variant: a descending sort that puts x in front of its equals
RECURSIVE InsertSortedUnstable(_, _)
InsertSortedUnstable(x, sorted) ==
    IF sorted = << >> THEN <<x>>
    ELSE IF ~SortsBefore(Head(sorted), x) THEN <<x>> \o sorted
    ELSE <<Head(sorted)>> \o InsertSortedUnstable(x, Tail(sorted))

\* sorted(..., reverse=True) is stable: x goes behind everything that does
\* not sort after it
RECURSIVE InsertSorted(_, _)
InsertSorted(x, sorted) ==
    IF sorted = << >> THEN <<x>>
    ELSE IF SortsBefore(x, Head(sorted)) THEN <<x>> \o sorted
    ELSE <<Head(sorted)>> \o InsertSorted(x, Tail(sorted))

RECURSIVE SortSignals(_)
SortSignals(ss) ==
    IF ss = << >> THEN << >>
    ELSE InsertSorted(ss[Len(ss)], SortSignals(SubSeq(ss, 1, Len(ss) - 1)))

\* what aggregate_signals returns
AggregateSignals(items, scores, min_traders, min_conviction) ==
    LET hs == AllHoldings(scores, items)
    IN  SortSignals(GroupSignals(GroupKeys(hs, {}), hs, Len(items),
                                 min_traders, min_conviction))

\* The thresholds the callers pass: the default, run()'s / LiveTrader's, and
\* a min_conviction of 50% that some groups of three wallets do not reach
MinTraders == {1, 2}
MinConvictions == {5, 10, 50}

\* SignalGenerator.aggregate_signals(min_traders, min_conviction)
aggregate_signals(min_traders, min_conviction) ==
    /\ signals = None
    /\ signals' = Some(AggregateSignals(positions, trader_scores,
                                        min_traders, min_conviction))
    /\ UNCHANGED <<positions, trader_scores, sizing, final_size,
                   call, returned, services>>

\* SignalGenerator after fetch_positions
AggregatorInit ==
    /\ EngineInit({default_config})
    /\ dry_run = FALSE
    /\ TraderIdle
    /\ ExactIdle
    /\ positions \in PositionInputs
    /\ trader_scores = TraderScores
    /\ signals = None
    /\ sizing = None
    /\ final_size = None
    /\ call = None
    /\ returned = None
    /\ ServicesIdle

NextAggregator ==
    \E mt \in MinTraders, mc \in MinConvictions :
        /\ aggregate_signals(mt, mc)
        /\ UNCHANGED <<engine, now, result, prev, lastOp, outcome, trader, exact>>

SpecAggregator == AggregatorInit /\ [][NextAggregator]_vars

(***************************************************************************)
(* The stabilizer's position sizing:                                       *)
(* AdaptiveRiskStabilizer.calculate_position_size (src/stabilizer.py).     *)
(* Sizes and exposure are in thousandths of the portfolio, conviction and  *)
(* drawdowns in percent, conviction_scaling and the regime factors in      *)
(* tenths.  The size is computed as an exact fraction of thousandths.      *)
(***************************************************************************)
\* ARSConfig(), the defaults
ARSConfig ==
    [ base_position_size      |-> 50,
      max_position_size       |-> 150,
      min_position_size       |-> 10,
      conviction_scaling      |-> 20,
      max_daily_drawdown      |-> 10,
      max_total_drawdown      |-> 25,
      drawdown_reduction_rate |-> 50,
      outlier_std_threshold   |-> 20,     \* tenths
      min_sample_size         |-> 5,
      volatility_lookback_periods |-> 20,
      high_volatility_threshold   |-> 3,  \* tenths
      regime_position_adjustments |->
          [calm |-> 10, volatile |-> 5, trending |-> 12, choppy |-> 3] ]

\* class MarketRegime(Enum): the values
MarketRegime == {"calm", "volatile", "trending", "choppy"}

FracMul(a, b) == Frac(a.num * b.num, a.den * b.den)
FracMin(a, b) == IF FracLT(b, a) THEN b ELSE a
FracMax(a, b) == IF FracLT(a, b) THEN b ELSE a

\* a and b are the same number
FracEq(a, b) == a.num * b.den = b.num * a.den

\* a <= b
FracLE(a, b) == ~FracLT(b, a)

\* "Drawdown adjustment"
DrawdownFactor(cfg, current_drawdown) ==
    IF 2 * current_drawdown > cfg.max_daily_drawdown
    THEN FracMax(Frac(cfg.max_total_drawdown - current_drawdown,
                      cfg.max_total_drawdown),
                 Frac(cfg.drawdown_reduction_rate, 100))
    ELSE Frac(1, 1)

\* "Base size scaled by conviction" and "Regime adjustment"
RegimeAdjusted(cfg, conviction, regime) ==
    LET conviction_adjusted ==
            Frac(cfg.base_position_size
                    * (1000 + (conviction - 50) * cfg.conviction_scaling), 1000)
        regime_factor == Frac(cfg.regime_position_adjustments[regime], 10)
    IN  FracMul(conviction_adjusted, regime_factor)

\* Variant: the remaining capacity is left out of the clamp
CalculatePositionSizeUncapped(cfg, current_drawdown, conviction, regime, current_exposure) ==
    LET final_0 == FracMul(RegimeAdjusted(cfg, conviction, regime),
                           DrawdownFactor(cfg, current_drawdown))
        final_1 == FracMin(final_0, Frac(cfg.max_position_size, 1))
    IN  FracMax(final_1, Frac(cfg.min_position_size, 1))

\* what calculate_position_size returns
CalculatePositionSize(cfg, current_drawdown, conviction, regime, current_exposure) ==
    LET remaining_capacity == Frac(1000 - current_exposure, 1)
        final_0 == FracMul(RegimeAdjusted(cfg, conviction, regime),
                           DrawdownFactor(cfg, current_drawdown))
        final_1 == FracMin(FracMin(final_0, remaining_capacity),
                           Frac(cfg.max_position_size, 1))
    IN  FracMax(final_1, Frac(cfg.min_position_size, 1))

\* The arguments and self.current_drawdown of a call
Convictions == {0, 25, 50, 100}
Exposures == {0, 900, 995, 1000}
Drawdowns == {0, 5, 6, 15, 30}

SizingInputs ==
    [ conviction       : Convictions,
      regime           : MarketRegime,
      current_exposure : Exposures,
      current_drawdown : Drawdowns ]

\* AdaptiveRiskStabilizer.calculate_position_size(conviction, regime,
\* current_exposure)
calculate_position_size ==
    /\ final_size = None
    /\ final_size' = Some(CalculatePositionSize(ARSConfig,
                                                Val(sizing).current_drawdown,
                                                Val(sizing).conviction,
                                                Val(sizing).regime,
                                                Val(sizing).current_exposure))
    /\ UNCHANGED <<positions, trader_scores, signals, sizing, call, returned,
                   services>>

\* A stabilizer about to size a position
SizingInit ==
    /\ EngineInit({default_config})
    /\ dry_run = FALSE
    /\ TraderIdle
    /\ ExactIdle
    /\ positions = << >>
    /\ trader_scores = << >>
    /\ signals = None
    /\ sizing \in {Some(x) : x \in SizingInputs}
    /\ final_size = None
    /\ call = None
    /\ returned = None
    /\ ServicesIdle

NextSizing ==
    /\ calculate_position_size
    /\ UNCHANGED <<engine, now, result, prev, lastOp, outcome, trader, exact>>

SpecSizing == SizingInit /\ [][NextSizing]_vars

(***************************************************************************)
(* Functions called on their own.  call holds the name and the arguments, *)
(* returned the value; everything else is idle.                            *)
(***************************************************************************)
\* nothing but the call moves
CallInit(calls) ==
    /\ EngineInit({default_config})
    /\ dry_run = FALSE
    /\ TraderIdle
    /\ ExactIdle
    /\ positions = << >>
    /\ trader_scores = << >>
    /\ signals = None
    /\ sizing = None
    /\ final_size = None
    /\ call \in {Some(c) : c \in calls}
    /\ returned = None
    /\ ServicesIdle

\* the call returns value
Return(value) ==
    /\ returned = None
    /\ returned' = Some(value)
    /\ UNCHANGED <<engine, now, result, prev, lastOp, outcome, trader, exact,
                   positions, trader_scores, signals, sizing, final_size, call,
                   services>>

(***************************************************************************)
(* SignalGenerator.evaluate_entry_quality (src/signals.py).  avg_entry is  *)
(* a quotient [num, den] and current_price an integer of the same unit    *)
(* (the function depends on their signs and their ratio only), the score  *)
(* is in percent.                                                          *)
(***************************************************************************)
\* (label, score)
Quality(label, score) == [label |-> label, score |-> score]

\* Variant: a move of exactly 15% still counts as good
EvaluateEntryQualityInclusive(avg_entry, current_price) ==
    IF avg_entry.num <= 0 \/ current_price <= 0 THEN Quality("unknown", 50)
    ELSE LET price_move == Frac(current_price * avg_entry.den - avg_entry.num,
                                avg_entry.num)
         IN  IF ~FracLT(Frac(15, 100), price_move) THEN Quality("good", 100)
             ELSE IF FracLT(price_move, Frac(50, 100)) THEN Quality("fair", 70)
             ELSE IF FracLT(price_move, Frac(1, 1)) THEN Quality("late", 40)
             ELSE Quality("very_late", 10)

\* evaluate_entry_quality(avg_entry, current_price)
EvaluateEntryQuality(avg_entry, current_price) ==
    IF avg_entry.num <= 0 \/ current_price <= 0 THEN Quality("unknown", 50)
    ELSE LET price_move == Frac(current_price * avg_entry.den - avg_entry.num,
                                avg_entry.num)
         IN  IF FracLT(price_move, Frac(15, 100)) THEN Quality("good", 100)
             ELSE IF FracLT(price_move, Frac(50, 100)) THEN Quality("fair", 70)
             ELSE IF FracLT(price_move, Frac(1, 1)) THEN Quality("late", 40)
             ELSE Quality("very_late", 10)

\* The average entries and the current prices of the calls
AvgEntries ==
    {Frac(n, 1) : n \in {-20, 0, 20, 40}} \cup {Frac(100, 3), Frac(-100, 3)}
CurrentPrices == {-5, 0, 1, 10, 22, 23, 30, 40, 45, 46, 50, 59, 60, 79, 80, 99}

EntryCalls ==
    [ fn : {"evaluate_entry_quality"},
      avg_entry : AvgEntries,
      current_price : CurrentPrices ]

evaluate_entry_quality ==
    /\ Val(call).fn = "evaluate_entry_quality"
    /\ Return(EvaluateEntryQuality(Val(call).avg_entry,
                                   Val(call).current_price))

EntryInit == CallInit(EntryCalls)

NextEntry == evaluate_entry_quality

SpecEntry == EntryInit /\ [][NextEntry]_vars

(***************************************************************************)
(* AdaptiveRiskStabilizer.filter_outliers (src/stabilizer.py).  The values *)
(* are whole numbers; with n values of sum S and sum of squares Q the      *)
(* z-score of x is |n x - S| / sqrt(n Q - S^2), compared by its square.    *)
(***************************************************************************)
RECURSIVE SumSeq(_)
SumSeq(xs) == IF xs = << >> THEN 0 ELSE Head(xs) + SumSeq(Tail(xs))

RECURSIVE SumSquares(_)
SumSquares(xs) ==
    IF xs = << >> THEN 0 ELSE Head(xs) * Head(xs) + SumSquares(Tail(xs))

\* n^2 times the variance np.std takes the root of
Spread(xs) == Len(xs) * SumSquares(xs) - SumSeq(xs) * SumSeq(xs)

\* z_scores[i] < threshold, the threshold in tenths
ZBelow(xs, i, threshold) ==
    LET d == Len(xs) * xs[i] - SumSeq(xs)
    IN  100 * d * d < threshold * threshold * Spread(xs)

\* z_scores[i] > threshold
ZAbove(xs, i, threshold) ==
    LET d == Len(xs) * xs[i] - SumSeq(xs)
    IN  100 * d * d > threshold * threshold * Spread(xs)

\* the elements of xs at the indices of keep, in order
RECURSIVE Masked(_, _, _)
Masked(xs, keep, i) ==
    IF i > Len(xs) THEN << >>
    ELSE (IF i \in keep THEN <<xs[i]>> ELSE << >>) \o Masked(xs, keep, i + 1)

\* (filtered_values, filtered_labels)
Filtered(values, labels) == [values |-> values, labels |-> labels]

\* filter_outliers(values, labels)
FilterOutliers(cfg, values, labels) ==
    IF Len(values) < cfg.min_sample_size THEN Filtered(values, labels)
    ELSE IF Spread(values) = 0 THEN Filtered(values, labels)
    ELSE LET mask == {i \in DOMAIN values :
                         ZBelow(values, i, cfg.outlier_std_threshold)}
         IN  Filtered(Masked(values, mask, 1), Masked(labels, mask, 1))

\* ARSConfig(outlier_std_threshold=1.5): a threshold that a sample of four
\* can exceed
narrow_config == [ARSConfig EXCEPT !.outlier_std_threshold = 15]

\* The position sizes of the participants, and the participants
Notionals == {1, 6, 11}
Participant == <<"t1", "t2", "t3", "t4", "t5", "t6", "t7", "t8", "t9", "t10",
                 "t11">>
SampleSizes == {4, 5, 6}

OutlierCalls ==
    UNION { [ fn : {"filter_outliers"},
              config : {ARSConfig, narrow_config},
              values : [1..n -> Notionals],
              labels : {SubSeq(Participant, 1, n)} ] : n \in SampleSizes }

filter_outliers ==
    /\ Val(call).fn = "filter_outliers"
    /\ Return(FilterOutliers(Val(call).config, Val(call).values,
                             Val(call).labels))

OutliersInit == CallInit(OutlierCalls)

NextOutliers == filter_outliers

SpecOutliers == OutliersInit /\ [][NextOutliers]_vars

(***************************************************************************)
(* AdaptiveRiskStabilizer.detect_market_regime (src/stabilizer.py).  The   *)
(* prices of a series divide ReturnUnit, so that every simple return       *)
(* (p2 - p1) / p1 is a whole number of 1 / ReturnUnit; the standard        *)
(* deviation is compared by its square.                                    *)
(***************************************************************************)
SeriesPrices == {4, 5, 8}

\* np.diff(prices) / prices[:-1], times ReturnUnit
Returns(prices) ==
    [i \in 1..(Len(prices) - 1) |->
        (ReturnUnit * (prices[i + 1] - prices[i])) \div prices[i]]

\* np.sign
Sign(x) == IF x > 0 THEN 1 ELSE IF x < 0 THEN -1 ELSE 0

Abs(x) == IF x < 0 THEN -x ELSE x

\* np.sum(np.diff(np.sign(returns)) != 0)
DirectionChanges(returns) ==
    Cardinality({i \in 1..(Len(returns) - 1) :
                    Sign(returns[i]) # Sign(returns[i + 1])})

\* prices[-lookback:]
LastPrices(prices, lookback) ==
    IF Len(prices) <= lookback THEN prices
    ELSE SubSeq(prices, Len(prices) - lookback + 1, Len(prices))

\* "Classify regime" on the prices of the window
ClassifyRegime(cfg, prices) ==
    LET returns == Returns(prices)
        m == Len(returns)
        volatile == 100 * Spread(returns)
                       > cfg.high_volatility_threshold
                           * cfg.high_volatility_threshold
                           * m * m * ReturnUnit * ReturnUnit
        strong == 10 * Abs(prices[Len(prices)] - prices[1]) > prices[1]
        changes == DirectionChanges(returns)
    IN  IF volatile THEN "volatile"
        ELSE IF strong /\ 10 * changes < 3 * m THEN "trending"
        ELSE IF 10 * changes > 6 * m THEN "choppy"
        ELSE "calm"

\* detect_market_regime(prices)
DetectMarketRegime(cfg, prices) ==
    IF Len(prices) < cfg.volatility_lookback_periods THEN "calm"
    ELSE ClassifyRegime(cfg, LastPrices(prices, cfg.volatility_lookback_periods))

\* The series of the calls: a motif of up to three prices repeated, a flat
\* series with a last price of its own, one with a first price of its own
Motifs ==
    UNION {[1..k -> SeriesPrices] : k \in 1..3}

Repeated(motif, n) == [i \in 1..n |-> motif[((i - 1) % Len(motif)) + 1]]
StepAtEnd(p, q, n) == [i \in 1..n |-> IF i < n THEN p ELSE q]
StepAtStart(p, q, n) == [i \in 1..n |-> IF i > 1 THEN p ELSE q]

SeriesLengths == {9, 10, 19, 20, 25}

PriceSeries ==
    UNION { {Repeated(mo, n) : mo \in Motifs}
              \cup {StepAtEnd(p, q, n) : p, q \in SeriesPrices}
              \cup {StepAtStart(p, q, n) : p, q \in SeriesPrices}
            : n \in SeriesLengths }

RegimeCalls ==
    [ fn : {"detect_market_regime"}, prices : PriceSeries ]

detect_market_regime ==
    /\ Val(call).fn = "detect_market_regime"
    /\ Return(DetectMarketRegime(ARSConfig, Val(call).prices))

RegimeInit == CallInit(RegimeCalls)

NextRegime == detect_market_regime

SpecRegime == RegimeInit /\ [][NextRegime]_vars

(***************************************************************************)
(* AdaptiveRiskStabilizer.process_signal (src/stabilizer.py).  Win rates   *)
(* are in percent, consistencies in thousandths, convictions are quotients *)
(* [num, den] in lowest terms, sizes are in thousandths of the portfolio.  *)
(***************************************************************************)
RECURSIVE GCD(_, _)
GCD(a, b) == IF b = 0 THEN a ELSE GCD(b, a % b)

\* the same number in lowest terms
Reduce(f) ==
    LET g == GCD(Abs(f.num), f.den)
    IN  Frac(f.num \div g, f.den \div g)

\* Variant: no clamp
ClipOff(x) == x

\* np.clip(x, 0, 1)
Clip(x) ==
    IF x.num < 0 THEN Frac(0, 1)
    ELSE IF x.num > x.den THEN Frac(1, 1)
    ELSE x

\* consistency = win_rate * 0.6 + (0.4 if pnl > 0 else 0.0)
Consistency(t) ==
    6 * t.win_rate + (IF t.pnl > 0 THEN 400 ELSE 0)

\* the entries of supporting_traders whose wallet is in filtered_wallets
Surviving(supporting_traders, filtered_wallets) ==
    LET In(t) == \E i \in DOMAIN filtered_wallets : filtered_wallets[i] = t.wallet
    IN  SelectSeq(supporting_traders, In)

RECURSIVE SumConsistency(_)
SumConsistency(ts) ==
    IF ts = << >> THEN 0 ELSE Consistency(Head(ts)) + SumConsistency(Tail(ts))

\* calculate_position_size(conviction, regime, current_exposure) for a
\* conviction that is a quotient
PositionSizeAt(cfg, current_drawdown, conviction, regime, current_exposure) ==
    LET conviction_adjusted ==
            Reduce(Frac(cfg.base_position_size
                          * (20 * conviction.den
                               + (2 * conviction.num - conviction.den)
                                    * cfg.conviction_scaling),
                        20 * conviction.den))
        regime_factor == Frac(cfg.regime_position_adjustments[regime], 10)
        regime_adjusted == Reduce(FracMul(conviction_adjusted, regime_factor))
        final_0 == Reduce(FracMul(regime_adjusted,
                                  DrawdownFactor(cfg, current_drawdown)))
        remaining_capacity == Frac(1000 - current_exposure, 1)
        final_1 == FracMin(FracMin(final_0, remaining_capacity),
                           Frac(cfg.max_position_size, 1))
    IN  FracMax(final_1, Frac(cfg.min_position_size, 1))

\* process_signal(..., supporting_traders, market_prices, current_exposure)
\* on a stabilizer whose current_drawdown is 0: the fields of the Signal
ProcessSignal(cfg, supporting_traders, market_prices, current_exposure) ==
    LET num_traders == Len(supporting_traders)
        raw_conviction == Frac(Min(num_traders, 10), 10)
        position_sizes == [i \in DOMAIN supporting_traders |->
                              supporting_traders[i].position_size]
        wallets == [i \in DOMAIN supporting_traders |->
                       supporting_traders[i].wallet]
        filtered_wallets == FilterOutliers(cfg, position_sizes, wallets).labels
        scored == Surviving(supporting_traders, filtered_wallets)
        avg_consistency ==
            IF scored = << >> THEN Frac(1, 2)
            ELSE Reduce(Frac(SumConsistency(scored), 1000 * Len(scored)))
        regime == IF market_prices # << >> /\ Len(market_prices) >= 10
                  THEN DetectMarketRegime(cfg, market_prices)
                  ELSE "calm"
        regime_factor == cfg.regime_position_adjustments[regime]
        ars_conviction ==
            Clip(Reduce(FracMul(FracMul(raw_conviction, avg_consistency),
                                Frac(10 + regime_factor, 20))))
    IN  [ raw_conviction         |-> raw_conviction,
          ars_conviction         |-> ars_conviction,
          recommended_size       |-> PositionSizeAt(cfg, 0, ars_conviction,
                                                    regime, current_exposure),
          source_traders         |-> filtered_wallets,
          avg_trader_consistency |-> avg_consistency,
          regime_adjustment      |-> regime_factor,
          regime                 |-> regime,
          num_traders_original   |-> num_traders,
          num_traders_filtered   |-> Len(filtered_wallets) ]

\* The supporting traders of the calls: steady winners (win rate 100,
\* pnl > 0), traders at a loss (win rate 50, pnl 0), and winners with six
\* times the position of the others (win rate 50, pnl > 0)
\* a steady, then b losing, then c large traders, wallets t1, t2, ...
Crowd(a, b, c) ==
    [i \in 1..(a + b + c) |->
        [ wallet        |-> Participant[i],
          position_size |-> IF i <= a + b THEN 1 ELSE 6,
          pnl           |-> IF i <= a \/ i > a + b THEN 1 ELSE 0,
          win_rate      |-> IF i <= a THEN 100 ELSE 50 ]]

Crowds ==
    {Crowd(n[1], n[2], n[3]) :
        n \in {m \in {0, 1, 4, 5, 10, 11} \X {0, 1, 5} \X {0, 1} :
                  m[1] + m[2] + m[3] <= Len(Participant)}}

\* market_prices: none, ten points, and twenty points of each regime
MarketPrices ==
    { << >>, StepAtEnd(4, 5, 10), StepAtEnd(4, 5, 20), Repeated(<<4>>, 20),
      Repeated(<<4, 8>>, 20), Repeated(<<4, 4, 5>>, 20) }

ProcessCalls ==
    [ fn : {"process_signal"},
      supporting_traders : Crowds,
      market_prices : MarketPrices,
      current_exposure : {0, 995} ]

process_signal ==
    /\ Val(call).fn = "process_signal"
    /\ Return(ProcessSignal(ARSConfig, Val(call).supporting_traders,
                            Val(call).market_prices,
                            Val(call).current_exposure))

ProcessInit == CallInit(ProcessCalls)

NextProcess == process_signal

SpecProcess == ProcessInit /\ [][NextProcess]_vars

(***************************************************************************)
(* SignalGenerator.run (src/signals.py): aggregate_signals, then           *)
(* filter_resolved_markets, then apply_ars_scoring.  LiveTrader's          *)
(* fetch_signals makes the same three calls in the same order.  Prices are *)
(* in cents, consistencies in percent, scores are quotients [num, den].    *)
(***************************************************************************)
FracAdd(a, b) == Frac(a.num * b.den + b.num * a.den, a.den * b.den)

\* sig.current_price >= 0.98 or sig.current_price <= 0.02
Resolved(sig) == sig.current_price >= 98 \/ sig.current_price <= 2

\* Variant: only prices beyond 0.98 and 0.02 count as resolved
FilterResolvedMarketsStrict(ss) ==
    LET Active(sig) == ~(sig.current_price > 98 \/ sig.current_price < 2)
    IN  SelectSeq(ss, Active)

\* filter_resolved_markets(signals)
FilterResolvedMarkets(ss) ==
    LET Active(sig) == ~Resolved(sig)
    IN  SelectSeq(ss, Active)

\* supporting_traders as apply_ars_scoring collects them for one signal
SupportingTraders(items, scores, sig) ==
    LET hs == AllHoldings(scores, items)
        Match(h) == /\ h.position.market_slug = sig.market_slug
                    /\ h.position.outcome = sig.direction
        held == SelectSeq(hs, Match)
    IN  [i \in DOMAIN held |->
            [ wallet        |-> held[i].trader.wallet,
              position_size |-> held[i].position.current_value,
              pnl           |-> held[i].position.pnl,
              win_rate      |-> held[i].trader.consistency ]]

\* the signal after apply_ars_scoring has set its three ARS fields
Scored(items, scores, sig) ==
    LET entry == EvaluateEntryQuality(sig.avg_entry_price, sig.current_price)
        ars_signal == ProcessSignal(ARSConfig,
                                    SupportingTraders(items, scores, sig),
                                    << >>, 0)
        ars_score ==
            Reduce(FracAdd(FracAdd(FracMul(ars_signal.ars_conviction, Frac(4, 10)),
                                   Frac(3 * entry.score, 1000)),
                           FracMul(sig.conviction, Frac(3, 10))))
    IN  [ market_slug      |-> sig.market_slug,
          direction        |-> sig.direction,
          conviction       |-> sig.conviction,
          num_traders      |-> sig.num_traders,
          total_size       |-> sig.total_size,
          avg_entry_price  |-> sig.avg_entry_price,
          current_price    |-> sig.current_price,
          expected_edge    |-> sig.expected_edge,
          traders          |-> sig.traders,
          ars_score        |-> ars_score,
          recommended_size |-> ars_signal.recommended_size,
          entry_quality    |-> entry.label ]

\* sorted(scored_signals, key=lambda x: x.ars_score, reverse=True)
RECURSIVE InsertByScore(_, _)
InsertByScore(x, sorted) ==
    IF sorted = << >> THEN <<x>>
    ELSE IF FracLT(Head(sorted).ars_score, x.ars_score) THEN <<x>> \o sorted
    ELSE <<Head(sorted)>> \o InsertByScore(x, Tail(sorted))

RECURSIVE SortByScore(_)
SortByScore(ss) ==
    IF ss = << >> THEN << >>
    ELSE InsertByScore(ss[Len(ss)], SortByScore(SubSeq(ss, 1, Len(ss) - 1)))

\* what apply_ars_scoring returns
ApplyArsScoring(items, scores, ss) ==
    SortByScore([i \in DOMAIN ss |-> Scored(items, scores, ss[i])])

\* polymarket.Position with the field apply_ars_scoring reads as well
HeldPosition(slug, side, size, avg_price, current_price, current_value, pnl) ==
    [ market_slug   |-> slug,
      outcome       |-> side,
      size          |-> size,
      avg_price     |-> avg_price,
      current_price |-> current_price,
      current_value |-> current_value,
      pnl           |-> pnl ]

\* The positions of the runs: markets priced 0.98, 0.97, 0.02, 0.03, 0.60
HeldKinds ==
    { HeldPosition("m1", "Yes", 10, 40, 98, 980,  580),
      HeldPosition("m2", "No",  10, 40, 97, 970,  570),
      HeldPosition("m3", "Yes", 250, 40, 2, 500, -9500),
      HeldPosition("m4", "No",  10,  1,  3,  30,   20),
      HeldPosition("m5", "Yes", 10, 50, 60, 600,  100) }

HeldLists ==
    {<< >>} \cup {<<a>> : a \in HeldKinds} \cup {<<a, b>> : a, b \in HeldKinds}

RunWallets == <<"w1", "w2">>

\* self.positions after fetch_positions
RunInputs ==
    UNION { { [i \in 1..n |-> [wallet |-> RunWallets[i], positions |-> f[i]]] :
                f \in [1..n -> HeldLists] } : n \in 0..Len(RunWallets) }

\* self.trader_scores after score_traders
RunScores ==
    << [wallet |-> "w1", username |-> "w1", consistency |-> 80],
       [wallet |-> "w2", username |-> "w2", consistency |-> 40] >>

\* the frame of run(top_traders, min_agreement) once fetch_positions is done
RunFrame(min_agreement) ==
    [ pc             |-> "fetched",
      min_agreement  |-> min_agreement,
      raw_signals    |-> None,
      active_signals |-> None,
      scored_signals |-> None ]

\* raw_signals = self.aggregate_signals(min_traders=min_agreement,
\*                                      min_conviction=0.05)
run_aggregate_signals ==
    /\ run_frame.pc = "fetched"
    /\ run_frame' = [run_frame EXCEPT
           !.pc = "aggregated",
           !.raw_signals = Some(AggregateSignals(positions, trader_scores,
                                                 run_frame.min_agreement, 5))]
    /\ UNCHANGED <<positions, trader_scores>>

\* active_signals = self.filter_resolved_markets(raw_signals)
run_filter_resolved_markets ==
    /\ run_frame.pc = "aggregated"
    /\ run_frame' = [run_frame EXCEPT
           !.pc = "filtered",
           !.active_signals = Some(FilterResolvedMarkets(Val(run_frame.raw_signals)))]
    /\ UNCHANGED <<positions, trader_scores>>

\* scored_signals = self.apply_ars_scoring(active_signals); the Signal
\* objects are written in place, so the two earlier lists see the fields
run_apply_ars_scoring ==
    /\ run_frame.pc = "filtered"
    /\ LET InPlace(ss) ==
               [i \in DOMAIN ss |->
                   IF Resolved(ss[i]) THEN ss[i]
                   ELSE Scored(positions, trader_scores, ss[i])]
       IN  run_frame' = [run_frame EXCEPT
               !.pc = "returned",
               !.raw_signals = Some(InPlace(Val(run_frame.raw_signals))),
               !.active_signals = Some(InPlace(Val(run_frame.active_signals))),
               !.scored_signals =
                   Some(ApplyArsScoring(positions, trader_scores,
                                        Val(run_frame.active_signals)))]
    /\ UNCHANGED <<positions, trader_scores>>

PipelineInit ==
    /\ EngineInit({default_config})
    /\ dry_run = FALSE
    /\ TraderIdle
    /\ ExactIdle
    /\ positions \in RunInputs
    /\ trader_scores = RunScores
    /\ signals = None
    /\ sizing = None
    /\ final_size = None
    /\ call = None
    /\ returned = None
    /\ run_frame \in {RunFrame(m) : m \in MinTraders}
    /\ aw_transactions = << >>
    /\ kalshi_orders = << >>
    /\ trade_result = None
    /\ signal_cache = None
    /\ clock = 0
    /\ api_requests = << >>

NextPipeline ==
    /\ \/ run_aggregate_signals
       \/ run_filter_resolved_markets
       \/ run_apply_ars_scoring
    /\ UNCHANGED <<engine, now, result, prev, lastOp, outcome, trader, exact,
                   signals, sizing, final_size, call, returned,
                   aw_transactions, kalshi_orders, trade_result,
                   signal_cache, clock, api_requests>>

SpecPipeline == PipelineInit /\ [][NextPipeline]_vars

(***************************************************************************)
(* AgentWalletKalshiTrader (src/kalshi_trading.py): a trade is submitted   *)
(* to the AgentWallet service as a transaction, and is placed on Kalshi    *)
(* according to the status the service answers with.  A transaction id is  *)
(* the transaction's position in aw_transactions; amounts are in cents.    *)
(***************************************************************************)
MaxCalls == 3

\* The statuses the service answers with; None: the response has no status
TxStatuses ==
    {Some(s) : s \in {"COMPLETED", "APPROVED", "AWAITING_APPROVAL", "REJECTED"}}
        \cup {None}

\* kalshi_trading.OrderResult
OrderResult(success, order_id, error) ==
    [ success         |-> success,
      order_id        |-> order_id,
      filled_quantity |-> 0,
      error           |-> error ]

\* KalshiTradingClient.place_order(ticker, side, quantity, price): what it
\* returns when the venue accepts or refuses the POST
PlaceOrder(ticker, side, quantity, price, accepted, n) ==
    IF price = None
    THEN OrderResult(FALSE, None, Some("Price required for limit orders"))
    ELSE IF accepted THEN OrderResult(TRUE, Some(n), None)
    ELSE OrderResult(FALSE, None, Some("Kalshi API error"))

\* the POST /portfolio/orders requests after place_order(...)
Posted(ticker, side, quantity, price, accepted) ==
    IF price = None THEN kalshi_orders
    ELSE Append(kalshi_orders,
                [ ticker |-> ticker, side |-> side, count |-> quantity,
                  price |-> Val(price), accepted |-> accepted ])

\* Variant: a transaction awaiting approval counts as approved
ApprovesAwaiting(status) ==
    status \in {Some("COMPLETED"), Some("APPROVED"), Some("AWAITING_APPROVAL")}

\* status == "COMPLETED" or status == "APPROVED"
Approves(status) == status \in {Some("COMPLETED"), Some("APPROVED")}

\* Variant: the outcome of the order is not looked at
ExecutionStatusExecuted(order_result) == "executed"

\* "executed" if order_result.success else "failed"
ExecutionStatus(order_result) ==
    IF order_result.success THEN "executed" ELSE "failed"

\* estimated_cost, in cents
EstimatedCost(side, quantity, price) ==
    IF side = "yes" THEN quantity * price ELSE quantity * (100 - price)

\* what a call of the trader left behind: the n-th call, its function and
\* arguments, what the AgentWallet request did, and the value returned (None
\* when the call raised)
Outcome(n, fn, args, aw, value) ==
    [ n |-> n, fn |-> fn, args |-> args, aw |-> aw, value |-> value ]

Calls == IF trade_result = None THEN 0 ELSE Val(trade_result).n

\* propose_trade(ticker, side, quantity, price), the AgentWallet answering
\* with a transaction of the given status
propose_trade(ticker, side, quantity, price, status, accepted) ==
    /\ Calls < MaxCalls
    /\ LET tx_id == Len(aw_transactions) + 1
           tx == [ id       |-> tx_id,
                   status   |-> status,
                   amount   |-> EstimatedCost(side, quantity, price),
                   metadata |-> [ ticker |-> ticker, side |-> side,
                                  quantity |-> quantity,
                                  price |-> Some(price) ] ]
           order_result == PlaceOrder(ticker, side, quantity, Some(price),
                                      accepted, Len(kalshi_orders) + 1)
       IN  /\ aw_transactions' = Append(aw_transactions, tx)
           /\ IF Approves(status)
              THEN /\ kalshi_orders' = Posted(ticker, side, quantity,
                                              Some(price), accepted)
                   /\ trade_result' = Some(Outcome(Calls + 1, "propose_trade",
                          tx.metadata, "answered",
                          Some([ status            |-> "executed",
                                 agentwallet_tx_id |-> Some(tx_id),
                                 kalshi_order      |-> Some(order_result),
                                 rules_passed      |-> Some(TRUE) ])))
              ELSE /\ kalshi_orders' = kalshi_orders
                   /\ trade_result' = Some(Outcome(Calls + 1, "propose_trade",
                          tx.metadata, "answered",
                          Some([ status            |-> IF status = Some("AWAITING_APPROVAL")
                                                       THEN "pending_approval"
                                                       ELSE "rejected",
                                 agentwallet_tx_id |-> Some(tx_id),
                                 kalshi_order      |-> None,
                                 rules_passed      |-> Some(status = Some("AWAITING_APPROVAL")) ])))
    /\ UNCHANGED <<run_frame, signal_cache, clock, api_requests>>

\* propose_trade when self._aw_request raises
propose_trade_error(ticker, side, quantity, price) ==
    /\ Calls < MaxCalls
    /\ trade_result' = Some(Outcome(Calls + 1, "propose_trade",
           [ ticker |-> ticker, side |-> side, quantity |-> quantity,
             price |-> Some(price) ], "raised",
           Some([ status            |-> "error",
                  agentwallet_tx_id |-> None,
                  kalshi_order      |-> None,
                  rules_passed      |-> None ])))
    /\ UNCHANGED <<aw_transactions, kalshi_orders,
                   run_frame, signal_cache, clock, api_requests>>

\* AgentWalletKalshiTrader.execute_approved_trade(tx_id), the AgentWallet
\* answering with the transaction
kalshi_execute_approved_trade(tx_id, accepted) ==
    /\ Calls < MaxCalls
    /\ tx_id \in DOMAIN aw_transactions
    /\ LET tx == aw_transactions[tx_id]
           metadata == tx.metadata
           order_result == PlaceOrder(metadata.ticker, metadata.side,
                                      metadata.quantity, metadata.price,
                                      accepted, Len(kalshi_orders) + 1)
       IN  IF tx.status # Some("APPROVED")
           THEN /\ kalshi_orders' = kalshi_orders
                /\ trade_result' = Some(Outcome(Calls + 1,
                       "execute_approved_trade", [tx_id |-> tx_id],
                       "answered",
                       Some([ status            |-> "error",
                              agentwallet_tx_id |-> None,
                              kalshi_order      |-> None,
                              rules_passed      |-> None ])))
           ELSE /\ kalshi_orders' = Posted(metadata.ticker, metadata.side,
                                           metadata.quantity, metadata.price,
                                           accepted)
                /\ trade_result' = Some(Outcome(Calls + 1,
                       "execute_approved_trade", [tx_id |-> tx_id],
                       "answered",
                       Some([ status            |-> ExecutionStatus(order_result),
                              agentwallet_tx_id |-> Some(tx_id),
                              kalshi_order      |-> Some(order_result),
                              rules_passed      |-> None ])))
    /\ UNCHANGED <<aw_transactions, run_frame, signal_cache, clock, api_requests>>

\* execute_approved_trade when self._aw_request raises (an unknown id, a
\* failed request): the exception leaves the method
kalshi_execute_approved_trade_raises(tx_id) ==
    /\ Calls < MaxCalls
    /\ trade_result' = Some(Outcome(Calls + 1, "execute_approved_trade",
                                    [tx_id |-> tx_id], "raised", None))
    /\ UNCHANGED <<aw_transactions, kalshi_orders,
                   run_frame, signal_cache, clock, api_requests>>

\* the person at the AgentWallet dashboard approves or rejects a
\* transaction that awaits approval
dashboard_decision(tx_id, status) ==
    /\ tx_id \in DOMAIN aw_transactions
    /\ aw_transactions[tx_id].status = Some("AWAITING_APPROVAL")
    /\ aw_transactions' = [aw_transactions EXCEPT ![tx_id].status = Some(status)]
    /\ UNCHANGED <<kalshi_orders, trade_result,
                   run_frame, signal_cache, clock, api_requests>>

\* The trades proposed
Tickers == {"KXBTC"}
Sides == {"yes", "no"}
Quantities == {10}
LimitPrices == {45}

WalletInit ==
    /\ EngineInit({default_config})
    /\ dry_run = FALSE
    /\ TraderIdle
    /\ ExactIdle
    /\ StagesIdle

NextWallet ==
    /\ \/ \E t \in Tickers, s \in Sides, q \in Quantities, p \in LimitPrices,
             status \in TxStatuses, accepted \in BOOLEAN :
                propose_trade(t, s, q, p, status, accepted)
       \/ \E t \in Tickers, s \in Sides, q \in Quantities, p \in LimitPrices :
             propose_trade_error(t, s, q, p)
       \/ \E tx_id \in 1..MaxCalls, accepted \in BOOLEAN :
             kalshi_execute_approved_trade(tx_id, accepted)
       \/ \E tx_id \in 1..MaxCalls : kalshi_execute_approved_trade_raises(tx_id)
       \/ \E tx_id \in 1..MaxCalls, status \in {"APPROVED", "REJECTED"} :
             dashboard_decision(tx_id, status)
    /\ UNCHANGED <<engine, now, result, prev, lastOp, outcome, trader, exact,
                   positions, trader_scores, signals, sizing, final_size,
                   call, returned>>

SpecWallet == WalletInit /\ [][NextWallet]_vars

(***************************************************************************)
(* The signal API (src/api.py): the module-level signal_cache and          *)
(* get_cached_or_fresh, called by the routes, which FastAPI runs on worker *)
(* threads.  Time is in whole minutes.                                     *)
(***************************************************************************)
MaxClock == 6

\* signal_cache as the module defines it
EmptyCache ==
    [ signals                |-> << >>,
      traders                |-> << >>,
      last_updated           |-> None,
      cache_duration_minutes |-> 5 ]

\* Variant: a cache exactly cache_duration_minutes old is still used
CacheValidInclusive(cache, t) ==
    /\ cache.last_updated # None
    /\ t - Val(cache.last_updated) <= cache.cache_duration_minutes

\* signal_cache["last_updated"] is set and age_minutes <
\* signal_cache["cache_duration_minutes"]
CacheValid(cache, t) ==
    /\ cache.last_updated # None
    /\ t - Val(cache.last_updated) < cache.cache_duration_minutes

\* What fetch_fresh_signals can return: (signals, traders)
FreshData ==
    { [signals |-> << >>,      traders |-> <<"w1">>],
      [signals |-> <<"sig_1">>, traders |-> <<"w1">>],
      [signals |-> <<"sig_2">>, traders |-> <<"w1", "w2">>] }

\* The worker threads serving requests
Workers == {"a", "b"}

\* a worker between two requests
Waiting == [ pc |-> "idle", now |-> 0, fetch |-> "none", response |-> None ]

\* A route is entered: get_signals(refresh) and refresh_signals clear the
\* timestamp first, get_signal, get_traders and get_stats do not
get_signals(w, refresh) ==
    /\ api_requests[w].pc \in {"idle", "returned", "raised"}
    /\ api_requests' = [api_requests EXCEPT ![w] =
                            [Waiting EXCEPT !.pc = "entered"]]
    /\ signal_cache' = IF refresh
                       THEN [signal_cache EXCEPT !.last_updated = None]
                       ELSE signal_cache
    /\ UNCHANGED clock

\* get_cached_or_fresh up to the fetch: now = datetime.now(), then the
\* cache is returned if it is valid
get_cached_or_fresh(w) ==
    /\ api_requests[w].pc = "entered"
    /\ api_requests' = [api_requests EXCEPT ![w] =
           IF CacheValid(signal_cache, clock)
           THEN [ @ EXCEPT !.pc = "returned", !.now = clock,
                    !.response = Some([signals |-> signal_cache.signals,
                                       traders |-> signal_cache.traders]) ]
           ELSE [ @ EXCEPT !.pc = "fetching", !.now = clock ]]
    /\ UNCHANGED <<signal_cache, clock>>

\* fetch_fresh_signals() returns: the cache and its timestamp are replaced
fetch_fresh_signals_returns(w, data) ==
    /\ api_requests[w].pc = "fetching"
    /\ signal_cache' = [signal_cache EXCEPT
                           !.signals = data.signals,
                           !.traders = data.traders,
                           !.last_updated = Some(api_requests[w].now)]
    /\ api_requests' = [api_requests EXCEPT ![w] =
           [ @ EXCEPT !.pc = "returned", !.fetch = "returned",
                      !.response = Some(data) ]]
    /\ UNCHANGED clock

\* fetch_fresh_signals() raises: the stale cache if it holds signals,
\* otherwise the exception again
fetch_fresh_signals_raises(w) ==
    /\ api_requests[w].pc = "fetching"
    /\ api_requests' = [api_requests EXCEPT ![w] =
           IF signal_cache.signals # << >>
           THEN [ @ EXCEPT !.pc = "returned", !.fetch = "raised",
                    !.response = Some([signals |-> signal_cache.signals,
                                       traders |-> signal_cache.traders]) ]
           ELSE [ @ EXCEPT !.pc = "raised", !.fetch = "raised" ]]
    /\ UNCHANGED <<signal_cache, clock>>

\* a minute passes
minute_passes ==
    /\ clock < MaxClock
    /\ clock' = clock + 1
    /\ UNCHANGED <<signal_cache, api_requests>>

\* the module loaded, no request yet
ApiInit ==
    /\ EngineInit({default_config})
    /\ dry_run = FALSE
    /\ TraderIdle
    /\ ExactIdle
    /\ positions = << >>
    /\ trader_scores = << >>
    /\ signals = None
    /\ sizing = None
    /\ final_size = None
    /\ call = None
    /\ returned = None
    /\ run_frame = None
    /\ aw_transactions = << >>
    /\ kalshi_orders = << >>
    /\ trade_result = None
    /\ signal_cache = EmptyCache
    /\ clock = 0
    /\ api_requests = [w \in Workers |-> Waiting]

NextApi ==
    /\ \/ \E w \in Workers, refresh \in BOOLEAN : get_signals(w, refresh)
       \/ \E w \in Workers : get_cached_or_fresh(w)
       \/ \E w \in Workers, data \in FreshData : fetch_fresh_signals_returns(w, data)
       \/ \E w \in Workers : fetch_fresh_signals_raises(w)
       \/ minute_passes
    /\ UNCHANGED <<engine, now, result, prev, lastOp, outcome, trader, exact,
                   positions, trader_scores, signals, sizing, final_size,
                   call, returned,
                   run_frame, aw_transactions, kalshi_orders, trade_result>>

SpecApi == ApiInit /\ [][NextApi]_vars

(***************************************************************************)
(* Properties                                                              *)
(***************************************************************************)
Rules(o) == Val(o).rules_evaluated

\* the rule_ids of a list of evaluations, in order
RECURSIVE MapRuleId(_)
MapRuleId(es) ==
    IF es = << >> THEN << >> ELSE <<Head(es).rule_id>> \o MapRuleId(Tail(es))

\* the rule_ids of the failed evaluations of a list, in order
FailedIds(es) == MapRuleId(SelectSeq(es, Failed))

\* the audit entries written by evaluate_signal
IsEvaluationEntry(e) == "decision" \in DOMAIN e

\* a step that is a call of evaluate_signal
EvaluateStep == \E s \in Signals : evaluate_signal(s)

\* a step that is a call of the operation named
ResetStep == \E by \in Actors : reset_kill_switch(by)
ActivateStep == \E reason \in Reasons : activate_kill_switch(reason)
RefreshStep == \E b \in VenueBalances : run_once_refresh(b)

\* a step that records an executed trade
RecordStep == execute_approved_trade \/ run_pipeline_record

\* the pass/fail verdicts of a result, rule by rule
Verdicts(o) == [i \in DOMAIN Rules(o) |-> Rules(o)[i].passed]

\* result and prev come from two evaluate_signal calls made in a row at the
\* same time: nothing was recorded or refreshed between them
TwoInARow == prev # None /\ Val(prev).timestamp = Val(result).timestamp

\* the rule_ids in the order evaluate_signal appends them
RuleOrder ==
    << "kill_switch", "drawdown_monitor", "consecutive_losses",
       "entry_quality_filter", "ars_score_minimum", "conviction_minimum",
       "per_trade_limit", "daily_spend_limit", "weekly_spend_limit",
       "sufficient_balance", "trading_hours" >>

\* C1: every result of evaluate_signal holds the 11 rule evaluations in the
\* fixed order, whatever failed, and every call writes one audit entry that
\* counts 11 rules checked.
C1_ElevenRules ==
    /\ result # None => MapRuleId(Rules(result)) = RuleOrder
    /\ \A i \in DOMAIN audit_log :
          IsEvaluationEntry(audit_log[i]) => audit_log[i].rules_checked = 11
    /\ Len(SelectSeq(audit_log, IsEvaluationEntry)) = total_signals_processed

\* a call made with the kill switch active, its first rule failed, and the
\* ten later rules were still evaluated, some failing too
C1_Witness ==
    /\ lastOp = "evaluate_signal"
    /\ ~Rules(result)[1].passed
    /\ Len(Rules(result)) = 11
    /\ Len(FailedIds(Rules(result))) >= 3

\* C2: the decision is kill_switched if a KILL_SWITCH-typed rule failed,
\* else blocked if any rule failed, else approved.
C2_DecisionRule ==
    result # None =>
        LET es == Rules(result)
            failed == {i \in DOMAIN es : ~es[i].passed}
            killers == {i \in failed : es[i].rule_type = "KILL_SWITCH"}
            d == Val(result).decision
        IN  /\ killers # {} => d = "kill_switched"
            /\ (killers = {} /\ failed # {}) => d = "blocked"
            /\ failed = {} => d = "approved"
            /\ d = "approved" => \A i \in 1..11 : es[i].passed

\* a kill_switched result in which a rule of another type failed as well
C2_Witness ==
    /\ result # None
    /\ Val(result).decision = "kill_switched"
    /\ \E i \in DOMAIN Rules(result) :
          /\ ~Rules(result)[i].passed
          /\ Rules(result)[i].rule_type # "KILL_SWITCH"

\* C3: the kill switch is latched.  A step that finds it active leaves it
\* active unless the step is reset_kill_switch, and every evaluate_signal
\* made while it is active returns kill_switched.
C3_Latched ==
    [][ kill_switch_active =>
          /\ (kill_switch_active' \/ ResetStep)
          /\ EvaluateStep => Val(result').decision = "kill_switched"
      ]_vars

\* the switch was set by hand, an evaluation under it returned kill_switched
\* with every other rule passing, and the switch is still active
C3_Witness ==
    /\ kill_switch_active
    /\ kill_switch_reason = "manual"
    /\ lastOp = "evaluate_signal"
    /\ Val(result).decision = "kill_switched"
    /\ FailedIds(Rules(result)) = << "kill_switch" >>

\* drawdown = (peak - current) / peak is at or above the threshold
DrawdownAtThreshold ==
    /\ spend_tracker.peak_balance > 0
    /\ (spend_tracker.peak_balance - spend_tracker.current_balance) * 100
         >= config.drawdown_kill_switch_pct * spend_tracker.peak_balance

\* C4: an evaluate_signal that runs with drawdown >= the threshold fails the
\* drawdown rule, leaves the kill switch active and returns kill_switched;
\* below the threshold the drawdown rule passes and the switch is unchanged.
C4_DrawdownTrips ==
    [][ EvaluateStep =>
          IF DrawdownAtThreshold
          THEN /\ ~Rules(result')[2].passed
               /\ kill_switch_active'
               /\ Val(result').decision = "kill_switched"
          ELSE /\ Rules(result')[2].passed
               /\ kill_switch_active' = kill_switch_active
      ]_vars

\* drawdown at the threshold, the drawdown rule the only one that failed
C4_Witness ==
    /\ lastOp = "evaluate_signal"
    /\ DrawdownAtThreshold
    /\ FailedIds(Rules(result)) = << "drawdown_monitor" >>
    /\ Val(result).decision = "kill_switched"
    /\ kill_switch_active

\* C5: a result carries an order request iff its decision is approved, and
\* the audit entry of an evaluation carries an order value iff it is approved.
C5_OrderIffApproved ==
    /\ result # None =>
          (Val(result).order_request # None <=> Val(result).decision = "approved")
    /\ \A i \in DOMAIN audit_log :
          IsEvaluationEntry(audit_log[i]) =>
             (audit_log[i].order_value_cents # None
                 <=> audit_log[i].decision = "approved")

\* a kill_switched result and a blocked one before it, both without order
C5_Witness ==
    /\ lastOp = "evaluate_signal"
    /\ Val(result).decision = "kill_switched"
    /\ Val(result).order_request = None
    /\ \E i \in DOMAIN audit_log :
          /\ IsEvaluationEntry(audit_log[i])
          /\ audit_log[i].decision = "blocked"
          /\ audit_log[i].order_value_cents = None
    /\ \E i \in DOMAIN audit_log :
          /\ IsEvaluationEntry(audit_log[i])
          /\ audit_log[i].decision = "approved"
          /\ audit_log[i].order_value_cents # None

C7_Rejected ==
    [][ (execute_approved_trade /\ Val(result).decision # "approved")
           => outcome' = "raised" ]_vars

\* C7 as amended: execute_approved_trade on a result that is not approved
\* raises nothing: it returns the result as it was and changes no state.
C7_SilentlyReturned ==
    [][ (execute_approved_trade /\ Val(result).decision # "approved")
           => /\ outcome' = "returned"
              /\ result' = result
              /\ UNCHANGED engine ]_vars

\* a blocked result went through execute_approved_trade: the call returned,
\* no execution record, nothing in the ledger
C7_Witness ==
    /\ lastOp = "execute_approved_trade"
    /\ outcome = "returned"
    /\ Val(result).decision = "blocked"
    /\ Val(result).execution_result = None
    /\ spend_tracker.transactions = << >>

\* C8 as stated: two evaluations of one signal made in a row at the same
\* time give the same verdict for each of the 11 rules.
C8_Idempotent ==
    (TwoInARow /\ Val(prev).signal = Val(result).signal)
        => Verdicts(prev) = Verdicts(result)

\* C8 as amended: the verdicts of rules 2 to 11 are the same, and so is the
\* verdict of the kill-switch rule unless the first call activated the
\* switch (its drawdown rule failed with the switch off): then the
\* kill-switch rule passes in the first call and fails in the second.
C8_IdempotentButSwitch ==
    (TwoInARow /\ Val(prev).signal = Val(result).signal) =>
        /\ \A i \in 2..11 : Verdicts(prev)[i] = Verdicts(result)[i]
        /\ IF Verdicts(prev)[1] /\ ~Verdicts(prev)[2]
           THEN ~Verdicts(result)[1]
           ELSE Verdicts(result)[1] = Verdicts(prev)[1]

\* the first of two calls in a row tripped the switch
C8_Witness ==
    /\ TwoInARow
    /\ Val(prev).signal = Val(result).signal
    /\ Verdicts(prev)[1] /\ ~Verdicts(prev)[2]
    /\ ~Verdicts(result)[1]

\* the verdicts evaluate_signal would give signal s in the current state
VerdictsNow(s) ==
    LET es == Evaluations(config, spend_tracker, kill_switch_active, now, s)
    IN  [i \in DOMAIN es |-> es[i].passed]

CostNow(s) == TotalCostCents(config, spend_tracker, s)

SameQuality(s1, s2) ==
    /\ s1.entry_quality = s2.entry_quality
    /\ s1.ars_score = s2.ars_score
    /\ s1.conviction = s2.conviction

\* s2 is s1 with the cost raised from within the per-trade cap to above it
CostRaised(s1, s2) ==
    /\ SameQuality(s1, s2)
    /\ CostNow(s1) <= config.max_per_trade_cents
    /\ CostNow(s2) > config.max_per_trade_cents

\* C9 as stated: in one engine state, raising the cost from within the
\* per-trade cap to above it turns rule 7 from pass to fail and leaves the
\* other ten verdicts as they were.
C9_OnlyPerTradeFlips ==
    \A s1, s2 \in Signals :
        CostRaised(s1, s2) =>
            /\ VerdictsNow(s1)[7] /\ ~VerdictsNow(s2)[7]
            /\ \A i \in (1..11) \ {7} : VerdictsNow(s1)[i] = VerdictsNow(s2)[i]

CostRules == {8, 9, 10}

\* C9 as amended: rule 7 turns from pass to fail, the seven rules that do
\* not read the cost keep their verdicts, and the daily, weekly and balance
\* rules keep theirs or turn from pass to fail, never from fail to pass.
C9_CostMonotone ==
    \A s1, s2 \in Signals :
        CostRaised(s1, s2) =>
            /\ VerdictsNow(s1)[7] /\ ~VerdictsNow(s2)[7]
            /\ \A i \in (1..11) \ ({7} \cup CostRules) :
                  VerdictsNow(s1)[i] = VerdictsNow(s2)[i]
            /\ \A i \in CostRules : VerdictsNow(s2)[i] => VerdictsNow(s1)[i]

\* two calls in a row, same quality, the second at a cost above the cap:
\* the per-trade rule and the daily rule both went from pass to fail
C9_Witness ==
    /\ TwoInARow
    /\ CostRaised(Val(prev).signal, Val(result).signal)
    /\ Verdicts(prev)[7] /\ ~Verdicts(result)[7]
    /\ Verdicts(prev)[8] /\ ~Verdicts(result)[8]

\* signal s satisfies every threshold in the current state
AllThresholdsMet(s) ==
    LET cost == PriceCents(s) * Contracts(config, spend_tracker, s)
        hour == now % 24
    IN  /\ s.entry_quality \in config.allowed_signal_strengths
        /\ s.ars_score >= config.min_ars_score
        /\ s.conviction >= config.min_conviction
        /\ cost <= config.max_per_trade_cents
        /\ get_daily_spend(spend_tracker, now) + cost
              <= config.max_daily_spend_cents
        /\ get_weekly_spend(spend_tracker, now) + cost
              <= config.max_weekly_spend_cents
        /\ cost <= spend_tracker.current_balance
        /\ ~kill_switch_active
        /\ ~DrawdownAtThreshold
        /\ spend_tracker.consecutive_losses < config.consecutive_loss_limit
        /\ config.trading_hours.start <= hour
        /\ hour < config.trading_hours.end

VeryLate(s) == [s EXCEPT !.entry_quality = "very_late"]

\* C10: a signal that meets every threshold is approved with no failed
\* rule; the same signal with entry quality very_late is blocked with one
\* failed rule, the entry-quality filter.
C10_ScenarioAB ==
    \A s \in Signals :
        AllThresholdsMet(s) =>
            LET a == GovernanceResult(config, spend_tracker,
                                      kill_switch_active, now, s)
                b == GovernanceResult(config, spend_tracker,
                                      kill_switch_active, now, VeryLate(s))
            IN  /\ a.decision = "approved"
                /\ FailedIds(a.rules_evaluated) = << >>
                /\ b.decision = "blocked"
                /\ FailedIds(b.rules_evaluated) = << "entry_quality_filter" >>

\* scenario A then scenario B on the default engine: $15 against $500
C10_Witness ==
    /\ TwoInARow
    /\ config = default_config
    /\ Val(result).signal = [VeryLate(Val(prev).signal) EXCEPT
                                !.signal_id = Val(result).signal.signal_id]
    /\ Val(prev).decision = "approved"
    /\ Val(Val(prev).order_request).total_cost_cents = 1500
    /\ FailedIds(Rules(prev)) = << >>
    /\ Val(result).decision = "blocked"
    /\ FailedIds(Rules(result)) = << "entry_quality_filter" >>

\* the costs of the ledger entries idx, added up
RECURSIVE SumCosts(_)
SumCosts(idx) ==
    IF idx = {} THEN 0
    ELSE LET i == CHOOSE j \in idx : TRUE
         IN  spend_tracker.transactions[i].amount_cents + SumCosts(idx \ {i})

\* what was recorded at most `hours` hours before the current clock reading
LedgerSpend(hours) ==
    SumCosts({i \in DOMAIN spend_tracker.transactions :
                 now - spend_tracker.transactions[i].timestamp <= hours})

\* C11: in every evaluate_signal the daily rule passes iff the costs recorded
\* in the trailing 24 hours plus this trade's cost are within the daily cap,
\* the weekly rule is the same over the trailing 7 days, and a failed daily
\* rule with no kill-switch rule failed gives blocked.
C11_RollingWindows ==
    [][ EvaluateStep =>
          LET r == Val(result')
              cost == TotalCostCents(config, spend_tracker, r.signal)
          IN  /\ Rules(result')[8].passed
                    <=> LedgerSpend(24) + cost <= config.max_daily_spend_cents
              /\ Rules(result')[9].passed
                    <=> LedgerSpend(168) + cost <= config.max_weekly_spend_cents
              /\ (~Rules(result')[8].passed /\ \A i \in 1..3 : Rules(result')[i].passed)
                    => r.decision = "blocked"
      ]_vars

\* scenario D: money was spent today, the new trade alone is within every
\* cap, the projected daily total is not: blocked by the daily rule only
C11_Witness ==
    /\ lastOp = "evaluate_signal"
    /\ LedgerSpend(24) > 0
    /\ LedgerSpend(24) <= config.max_daily_spend_cents
    /\ FailedIds(Rules(result)) = << "daily_spend_limit" >>
    /\ Val(result).decision = "blocked"

\* the decisions of the evaluations in the audit log
LoggedDecisions ==
    {audit_log[i].decision :
        i \in {j \in DOMAIN audit_log : IsEvaluationEntry(audit_log[j])}}

\* C12: every result of evaluate_signal, held or logged, is approved,
\* blocked or kill_switched; requires_approval is never produced.
C12_NeverRequiresApproval ==
    /\ result # None =>
          /\ Val(result).decision \in GovernanceDecision
          /\ Val(result).decision # "requires_approval"
    /\ LoggedDecisions \subseteq GovernanceDecision \ {"requires_approval"}

\* the engine has produced each of the three other decisions
C12_Witness ==
    /\ lastOp = "evaluate_signal"
    /\ LoggedDecisions = GovernanceDecision \ {"requires_approval"}

\* the log after the step is the log before it with one entry e added
Appended(e) == audit_log' = Append(audit_log, e)

\* C13: the audit log is append-only.  evaluate_signal appends the audit
\* entry of its result, activate_kill_switch and reset_kill_switch append
\* one event entry each, execute_approved_trade appends nothing, and no step
\* does anything to the log but append one entry in one of those three calls.
C13_AppendOnly ==
    [][ /\ EvaluateStep => Appended(to_audit_entry(Val(result')))
        /\ ActivateStep =>
              \E reason \in Reasons :
                 Appended([event |-> "KILL_SWITCH_ACTIVATED", reason |-> reason])
        /\ ResetStep =>
              \E by \in Actors :
                 Appended([event |-> "KILL_SWITCH_RESET", authorized_by |-> by])
        /\ execute_approved_trade => audit_log' = audit_log
        /\ audit_log' # audit_log =>
              /\ EvaluateStep \/ ActivateStep \/ ResetStep
              /\ Len(audit_log') = Len(audit_log) + 1
              /\ SubSeq(audit_log', 1, Len(audit_log)) = audit_log
      ]_vars

\* an evaluation, an activation and a reset are in the log in the order they
\* were made, and a trade recorded since added nothing
C13_Witness ==
    /\ lastOp = "execute_approved_trade"
    /\ spend_tracker.transactions # << >>
    /\ Len(audit_log) = 3
    /\ audit_log[1] = [event |-> "KILL_SWITCH_ACTIVATED", reason |-> "manual"]
    /\ audit_log[2] = [event |-> "KILL_SWITCH_RESET", authorized_by |-> "api_request"]
    /\ IsEvaluationEntry(audit_log[3])

\* request r holds an approved result whose trade is not recorded yet
Unrecorded(r) == pc[r] \in {"approved", "ordered"}

\* C14 as stated: the evaluate -> record sequences of the /run requests are
\* serialized: no evaluate_signal runs while another request is between
\* its approved evaluation and the recording of its trade.
C14_Serialized ==
    [][ \A r \in Requests :
           (pc[r] = "pipeline" /\ \E s \in LiveSignals : run_pipeline_evaluate(r, s))
              => \A q \in Requests \ {r} : ~Unrecorded(q)
      ]_vars

\* a step in which create_order is called for request r
OrderStep(r) == run_pipeline_create_order(r) \/ run_pipeline_order_failed(r)

\* C17: create_order is called only for a request whose evaluate_signal of
\* this iteration returned approved, with the contract count of that
\* result's order request, and never by a dry-run trader.
C17_OrdersOnlyApproved ==
    [][ /\ dry_run => orders' = << >>
        /\ orders' # orders =>
              \E r \in Requests :
                 /\ OrderStep(r)
                 /\ pc[r] = "approved"
                 /\ Val(gov_result[r]).decision = "approved"
                 /\ Val(gov_result[r]).execution_result = None
                 /\ Len(orders') = Len(orders) + 1
                 /\ orders'[Len(orders')].count
                       = Val(Val(gov_result[r]).order_request).count
                 /\ orders'[Len(orders')].signal_id
                       = Val(gov_result[r]).signal.signal_id
        /\ \A r \in Requests :
              (pc[r] = "pipeline" /\ pc'[r] = "approved") =>
                  /\ ~dry_run
                  /\ Val(gov_result'[r]).decision = "approved"
      ]_vars

\* one signal was blocked and passed over, the next was approved and its
\* order for 6 contracts is the only one the venue received
C17_Witness ==
    /\ ~dry_run
    /\ Len(orders) = 1
    /\ orders[1].count = 6
    /\ orders[1].ok
    /\ \E i \in DOMAIN audit_log : audit_log[i].decision = "blocked"
    /\ \E r \in Requests : pc[r] = "ordered"

\* C15 as stated: every signal the aggregator emits has conviction equal to
\* num_traders / total participants, and the conviction lies in [0, 1].
C15_ConvictionFraction ==
    signals # None =>
        \A i \in DOMAIN Val(signals) :
            LET sig == Val(signals)[i]
            IN  /\ sig.conviction = Frac(sig.num_traders, Len(positions))
                /\ sig.conviction.den > 0
                /\ 0 <= sig.conviction.num
                /\ sig.conviction.num <= sig.conviction.den

\* the bounds of the size, in thousandths
MinSize == Frac(ARSConfig.min_position_size, 1)
MaxSize == Frac(ARSConfig.max_position_size, 1)
RemainingCapacity == Frac(1000 - Val(sizing).current_exposure, 1)

\* C16 as stated: the size returned is >= min_position_size,
\* <= max_position_size and <= 1 - current_exposure, all at once.
C16_SizeBounds ==
    final_size # None =>
        /\ FracLE(MinSize, Val(final_size))
        /\ FracLE(Val(final_size), MaxSize)
        /\ FracLE(Val(final_size), RemainingCapacity)

\* C16 as amended: the size is within [min_position_size,
\* max_position_size]; it is <= 1 - current_exposure whenever that capacity
\* is at least min_position_size, and it is min_position_size, above the
\* capacity, when the capacity is smaller.
C16_SizeBoundsFloorWins ==
    final_size # None =>
        /\ FracLE(MinSize, Val(final_size))
        /\ FracLE(Val(final_size), MaxSize)
        /\ IF FracLE(MinSize, RemainingCapacity)
           THEN FracLE(Val(final_size), RemainingCapacity)
           ELSE FracEq(Val(final_size), MinSize)

\* the capacity is what bounds the size: 12% wanted, 10% of room left
C16_Witness ==
    /\ final_size # None
    /\ Val(sizing).current_exposure = 900
    /\ FracEq(Val(final_size), RemainingCapacity)
    /\ FracLT(Val(final_size), MaxSize)
    /\ FracLT(MinSize, Val(final_size))

\* C18: execute_approved_trade on an approved result records that result's
\* order cost once: one ledger entry with the cost, the balance down by the
\* cost, the peak the larger of the old peak and the new balance, the P&L as
\* it was, an execution record "executed" with the same cost; the kill
\* switch, the audit log and the counters stay as they were.
C18_RecordsOnce ==
    [][ (execute_approved_trade /\ Val(result).decision = "approved") =>
          LET cost == Val(Val(result).order_request).total_cost_cents
              tr == spend_tracker
              tr2 == spend_tracker'
              er == Val(result').execution_result
          IN  /\ Len(tr2.transactions) = Len(tr.transactions) + 1
              /\ SubSeq(tr2.transactions, 1, Len(tr.transactions)) = tr.transactions
              /\ tr2.transactions[Len(tr2.transactions)].amount_cents = cost
              /\ tr2.current_balance = tr.current_balance - cost
              /\ tr2.peak_balance = Max(tr.peak_balance, tr2.current_balance)
              /\ tr2.total_pnl = tr.total_pnl
              /\ er # None
              /\ Val(er).status = "executed"
              /\ Val(er).cost_cents = cost
              /\ Val(result').decision = "approved"
              /\ Val(result').order_request = Val(result).order_request
              /\ UNCHANGED <<kill_switch_active, kill_switch_reason, audit_log,
                             total_signals_processed, total_blocked,
                             total_approved>>
      ]_vars

\* the $15 order of the default engine was recorded: $485 left of $500
C18_Witness ==
    /\ lastOp = "execute_approved_trade"
    /\ Val(result).execution_result # None
    /\ Val(Val(result).execution_result).cost_cents = 1500
    /\ Len(spend_tracker.transactions) = 1
    /\ spend_tracker.current_balance = 48500
    /\ spend_tracker.peak_balance = 50000
    /\ total_approved = 1

\* C19: under the protocol the recorded spend respects the caps: every
\* recorded cost is within the per-trade cap, what was recorded in the
\* trailing 24 hours within the daily cap, and what was recorded in the
\* trailing 7 days within the weekly cap.
C19_SpendWithinCaps ==
    /\ \A i \in DOMAIN spend_tracker.transactions :
          spend_tracker.transactions[i].amount_cents <= config.max_per_trade_cents
    /\ LedgerSpend(24) <= config.max_daily_spend_cents
    /\ LedgerSpend(168) <= config.max_weekly_spend_cents

\* two trades were recorded and the daily cap stopped the third
C19_Witness ==
    /\ lastOp = "evaluate_signal"
    /\ Len(spend_tracker.transactions) = 2
    /\ ~Rules(result)[8].passed
    /\ Rules(result)[7].passed
    /\ LedgerSpend(24) + TotalCostCents(config, spend_tracker, Val(result).signal)
          > config.max_daily_spend_cents

\* the balance moved by recorded trades only
OnlyTradesMovedBalance ==
    /\ spend_tracker.peak_balance = config.initial_balance
    /\ spend_tracker.current_balance
          = config.initial_balance - SumAmounts(spend_tracker.transactions)

\* the recorded costs add up to the drawdown threshold or more
SpentToThreshold ==
    SumAmounts(spend_tracker.transactions) * 100
        >= config.drawdown_kill_switch_pct * config.initial_balance

\* Recorded spend as drawdown, in whole cents.  Recording a trade lowers
\* the balance and leaves the peak where it was; once the recorded costs
\* reach drawdown_kill_switch_pct of the initial balance, nothing else
\* having moved the balance, the next evaluate_signal fails the drawdown
\* rule, leaves the kill switch active and returns kill_switched.
SpendIsDrawdownInCents ==
    [][ /\ (RecordStep /\ spend_tracker' # spend_tracker) =>
              /\ spend_tracker'.current_balance < spend_tracker.current_balance
              /\ spend_tracker'.peak_balance = spend_tracker.peak_balance
        /\ (EvaluateStep /\ OnlyTradesMovedBalance /\ SpentToThreshold) =>
              /\ ~Rules(result')[2].passed
              /\ kill_switch_active'
              /\ Val(result').decision = "kill_switched"
      ]_vars

\* two $5 trades on the $50 engine, all with P&L 0: the evaluation that
\* follows finds the switch off, trips it and returns kill_switched
SpendIsDrawdownReached ==
    /\ lastOp = "evaluate_signal"
    /\ OnlyTradesMovedBalance
    /\ SpentToThreshold
    /\ spend_tracker.total_pnl = 0
    /\ Rules(result)[1].passed
    /\ ~Rules(result)[2].passed
    /\ Val(result).decision = "kill_switched"
    /\ kill_switch_active

\* C21: reset_kill_switch does not by itself restore approvals.  The first
\* evaluate_signal after a reset, made with drawdown still at or above the
\* threshold, passes the kill-switch rule, fails the drawdown rule, leaves
\* the switch active again and returns kill_switched; an evaluation that
\* follows a reset approves only with drawdown below the threshold.
C21_ResetDoesNotRestore ==
    [][ (EvaluateStep /\ lastOp = "reset_kill_switch") =>
          /\ ~kill_switch_active
          /\ Rules(result')[1].passed
          /\ IF DrawdownAtThreshold
             THEN /\ ~Rules(result')[2].passed
                  /\ kill_switch_active'
                  /\ kill_switch_reason' = "Drawdown exceeded threshold"
                  /\ Val(result').decision = "kill_switched"
             ELSE /\ Rules(result')[2].passed
                  /\ ~kill_switch_active'
          /\ Val(result').decision = "approved" => ~DrawdownAtThreshold
      ]_vars

\* the drawdown rule tripped the switch, the switch was reset, and the next
\* evaluation tripped it again with the drawdown rule the only one failing
C21_Witness ==
    /\ Len(audit_log) = 3
    /\ IsEvaluationEntry(audit_log[1])
    /\ audit_log[1].decision = "kill_switched"
    /\ ~IsEvaluationEntry(audit_log[2])
    /\ audit_log[2].event = "KILL_SWITCH_RESET"
    /\ lastOp = "evaluate_signal"
    /\ DrawdownAtThreshold
    /\ FailedIds(Rules(result)) = << "drawdown_monitor" >>
    /\ Val(result).decision = "kill_switched"
    /\ kill_switch_active

\* the ledger gained an entry in this step
LedgerGrew ==
    Len(spend_tracker'.transactions) = Len(spend_tracker.transactions) + 1

\* the entry the step added
NewEntry == spend_tracker'.transactions[Len(spend_tracker'.transactions)]

\* every trade in the ledger was recorded with P&L 0
AllFlat ==
    \A i \in DOMAIN spend_tracker.transactions :
        spend_tracker.transactions[i].pnl = 0

\* C22: the consecutive-loss counter grows by one on a recorded trade with
\* P&L < 0 and is reset to 0 by any other recorded trade; the engine's own
\* recording writes P&L 0, so while the ledger holds nothing else the
\* counter is 0 and the consecutive-loss rule of every result passes.
C22_LossCounter ==
    /\ [][ LedgerGrew =>
             spend_tracker'.consecutive_losses =
                 IF NewEntry.pnl < 0
                 THEN spend_tracker.consecutive_losses + 1 ELSE 0 ]_vars
    /\ [][ (execute_approved_trade /\ LedgerGrew) =>
             /\ NewEntry.pnl = 0
             /\ spend_tracker'.consecutive_losses = 0 ]_vars
    /\ [](AllFlat =>
             /\ spend_tracker.consecutive_losses = 0
             /\ result # None => Rules(result)[3].passed)

\* two reported losses, then execute_approved_trade recorded an order: the
\* counter went 1, 2 and back to 0
C22_Witness ==
    /\ Len(spend_tracker.transactions) = 3
    /\ spend_tracker.transactions[1].pnl < 0
    /\ spend_tracker.transactions[2].pnl < 0
    /\ spend_tracker.transactions[3].pnl = 0
    /\ lastOp = "execute_approved_trade"
    /\ Val(result).execution_result # None
    /\ spend_tracker.consecutive_losses = 0

\* the order of the held result would not pass now: the switch is active,
\* or the order would take the day's spend over the cap, or it costs more
\* than the balance
Stale ==
    LET cost == Val(Val(result).order_request).total_cost_cents
    IN  \/ kill_switch_active
        \/ LedgerSpend(24) + cost > config.max_daily_spend_cents
        \/ cost > spend_tracker.current_balance

\* C23: execute_approved_trade consults only the decision stored in the
\* result.  A result approved earlier is recorded, ledger entry and balance,
\* also when the kill switch has been activated since or trades recorded
\* since make the same order exceed the daily cap or the balance.
C23_RecordsStaleApproval ==
    [][ (execute_approved_trade /\ Val(result).decision = "approved" /\ Stale) =>
          LET cost == Val(Val(result).order_request).total_cost_cents
          IN  /\ LedgerGrew
              /\ NewEntry.amount_cents = cost
              /\ spend_tracker'.current_balance
                    = spend_tracker.current_balance - cost
              /\ Val(result').execution_result # None
              /\ outcome' = "returned"
      ]_vars

\* one approved 50-cent order on the $1.00 wallet, recorded three times
\* with the switch active: over the daily cap and below a zero balance
C23_Witness ==
    /\ lastOp = "execute_approved_trade"
    /\ Val(result).decision = "approved"
    /\ Val(result).execution_result # None
    /\ kill_switch_active
    /\ total_approved = 1
    /\ LedgerSpend(24) > config.max_daily_spend_cents
    /\ spend_tracker.current_balance < 0

\* C24: execute_approved_trade is not idempotent.  A call with an approved
\* result that already carries an execution record appends another ledger
\* entry, takes the order cost off the balance again and replaces the
\* execution record by one with a new order id.
C24_NotIdempotent ==
    [][ (/\ execute_approved_trade
         /\ Val(result).decision = "approved"
         /\ Val(result).execution_result # None) =>
          LET cost == Val(Val(result).order_request).total_cost_cents
              old == Val(Val(result).execution_result)
              new == Val(Val(result').execution_result)
          IN  /\ LedgerGrew
              /\ NewEntry.amount_cents = cost
              /\ old.cost_cents = cost
              /\ spend_tracker'.current_balance
                    = spend_tracker.current_balance - cost
              /\ new.order_id # old.order_id
              /\ new.status = "executed"
              /\ new.cost_cents = cost
      ]_vars

\* one approval, two calls: the $15 order is in the ledger twice, $30 are
\* gone, the record carries the second order id
C24_Witness ==
    /\ lastOp = "execute_approved_trade"
    /\ total_approved = 1
    /\ total_signals_processed = 1
    /\ Len(spend_tracker.transactions) = 2
    /\ spend_tracker.transactions[1].amount_cents = 1500
    /\ spend_tracker.transactions[2].amount_cents = 1500
    /\ spend_tracker.current_balance = 47000
    /\ Val(Val(result).execution_result).order_id = 2

\* C25: execute_approved_trade called with a blocked or kill_switched result
\* returns that result as it was and changes nothing in the engine: balance,
\* peak, P&L, loss counter, ledger, kill switch, audit log and counters.
C25_RefusedChangesNothing ==
    [][ (/\ execute_approved_trade
         /\ Val(result).decision \in {"blocked", "kill_switched"}) =>
          /\ outcome' = "returned"
          /\ result' = result
          /\ spend_tracker'.current_balance = spend_tracker.current_balance
          /\ spend_tracker'.peak_balance = spend_tracker.peak_balance
          /\ spend_tracker'.total_pnl = spend_tracker.total_pnl
          /\ spend_tracker'.consecutive_losses = spend_tracker.consecutive_losses
          /\ spend_tracker'.transactions = spend_tracker.transactions
          /\ UNCHANGED <<kill_switch_active, kill_switch_reason, audit_log,
                         total_signals_processed, total_blocked,
                         total_approved, config>>
      ]_vars

\* two recorded trades took the live engine to its drawdown threshold, the
\* next result was kill_switched and was handed to execute_approved_trade:
\* the ledger still holds the two trades
C25_Witness ==
    /\ lastOp = "execute_approved_trade"
    /\ outcome = "returned"
    /\ Val(result).decision = "kill_switched"
    /\ Val(result).execution_result = None
    /\ Val(result).order_request = None
    /\ Len(spend_tracker.transactions) = 2
    /\ OnlyTradesMovedBalance
    /\ kill_switch_active

\* C26: in every state reached from construction by evaluate_signal and
\* execute_approved_trade the peak balance is at least the current balance,
\* so the drawdown the monitor reads is never negative, and it is 0 as long
\* as the ledger is empty.
C26_PeakAboveBalance ==
    /\ spend_tracker.peak_balance >= spend_tracker.current_balance
    /\ get_drawdown(spend_tracker).den > 0
    /\ get_drawdown(spend_tracker).num >= 0
    /\ spend_tracker.transactions = << >> =>
          /\ get_drawdown(spend_tracker).num = 0
          /\ spend_tracker.peak_balance = spend_tracker.current_balance
    /\ \A i \in DOMAIN spend_tracker.transactions :
          spend_tracker.transactions[i].amount_cents >= 0

\* a trade was recorded, the balance is below the peak, and the evaluation
\* that followed read a drawdown above 0 and below the threshold
C26_Witness ==
    /\ lastOp = "evaluate_signal"
    /\ Len(spend_tracker.transactions) = 1
    /\ spend_tracker.peak_balance = config.initial_balance
    /\ spend_tracker.current_balance < spend_tracker.peak_balance
    /\ get_drawdown(spend_tracker).num > 0
    /\ Rules(result)[2].passed

\* C27: under the protocol (every approved result recorded before the next
\* evaluate_signal, none recorded twice) the current balance is never
\* negative.
C27_NeverNegative ==
    /\ spend_tracker.current_balance >= 0
    /\ float_balance # None => ~FloatNegative(Val(float_balance))

\* round(current_price * 100), current_price in mills
RoundedPriceCents(s) == (s.current_price + 5) \div 10

\* floor(recommended_size * balance / max(current_price, 0.01)) clamped to
\* [1, max_position_contracts]
ClampedContracts(s) ==
    LET raw == (s.recommended_size * spend_tracker.current_balance)
                   \div (10 * Max(s.current_price, 10))
    IN  IF raw < 1 THEN 1
        ELSE IF raw > config.max_position_contracts
             THEN config.max_position_contracts
        ELSE raw

\* C28: the order request of an evaluation is price_cents = round(price x
\* 100), contracts = floor(size x balance / max(price, 0.01)) clamped to
\* [1, max_position_contracts], total_cost_cents = price_cents x contracts;
\* 1 <= contracts <= max_position_contracts, and rules 7 to 10 are decided
\* on that total cost.
C28_OrderDerivation ==
    [][ \A s \in Signals : evaluate_signal(s) =>
          LET price_cents == RoundedPriceCents(s)
              contracts == ClampedContracts(s)
              total == price_cents * contracts
              r == Val(result')
          IN  /\ 1 <= contracts /\ contracts <= config.max_position_contracts
              /\ r.decision = "approved" =>
                    /\ Val(r.order_request).price = price_cents
                    /\ Val(r.order_request).count = contracts
                    /\ Val(r.order_request).total_cost_cents = total
              /\ r.rules_evaluated[7].passed
                    <=> total <= config.max_per_trade_cents
              /\ r.rules_evaluated[8].passed
                    <=> LedgerSpend(24) + total <= config.max_daily_spend_cents
              /\ r.rules_evaluated[9].passed
                    <=> LedgerSpend(168) + total <= config.max_weekly_spend_cents
              /\ r.rules_evaluated[10].passed
                    <=> total <= spend_tracker.current_balance
      ]_vars

\* the last create_order call of request r returned without error
OrderReturned(r) ==
    LET mine == {i \in DOMAIN orders : orders[i].request = r}
    IN  /\ mine # {}
        /\ LET last == CHOOSE i \in mine : \A j \in mine : j <= i
           IN  /\ orders[last].ok
               /\ orders[last].signal_id
                     = Val(Val(gov_result[r]).order_request).signal_id
               /\ orders[last].count
                     = Val(Val(gov_result[r]).order_request).count

\* C29: in live mode the spend tracker records a trade's cost only after
\* create_order for that trade returned without error; when create_order
\* raises, the spend tracker is left as it was, the run's error count goes
\* up by one, a TRADE_FAILED entry is appended to the audit file, and the
\* request is back in the loop for its next signal.
C29_RecordsAfterOrder ==
    [][ /\ LedgerGrew =>
              \E r \in Requests :
                 /\ ~dry_run
                 /\ pc[r] = "ordered"
                 /\ OrderReturned(r)
                 /\ NewEntry.amount_cents
                       = Val(Val(gov_result[r]).order_request).total_cost_cents
                 /\ audit' = Append(audit, AuditEntry("TRADE_EXECUTED",
                                       Val(gov_result[r]).signal.signal_id))
        /\ \A r \in Requests :
              (/\ Len(orders') = Len(orders) + 1
               /\ orders'[Len(orders')].request = r
               /\ ~orders'[Len(orders')].ok) =>
                  /\ spend_tracker' = spend_tracker
                  /\ errors' = [errors EXCEPT ![r] = @ + 1]
                  /\ audit' = Append(audit, AuditEntry("TRADE_FAILED",
                                        Val(gov_result[r]).signal.signal_id))
                  /\ pc[r] = "approved" /\ pc'[r] = "pipeline"
      ]_vars

\* a request whose first order failed went on to its next signal, whose
\* order went through and is the only trade in the spend tracker
C29_Witness ==
    \E r \in Requests :
       /\ errors[r] = 1
       /\ Len(orders) = 2
       /\ orders[1].request = r /\ ~orders[1].ok
       /\ orders[2].request = r /\ orders[2].ok
       /\ Len(spend_tracker.transactions) = 1
       /\ Logged("TRADE_FAILED") # {}
       /\ \A i \in Logged("TRADE_FAILED") :
             \E j \in Logged("TRADE_EXECUTED") : i < j

\* the participants (wallets) with a position in the group of a key
Participants(hs, key) ==
    {Group(hs, key)[i].trader.wallet : i \in DOMAIN Group(hs, key)}

\* the signals of a list that are about a key
SignalsOf(out, key) ==
    {i \in DOMAIN out : <<out[i].market_slug, out[i].direction>> = key}

\* C30: aggregate_signals emits exactly one signal for each (market,
\* outcome) group whose participant count is >= min_traders and whose
\* conviction (participant count / total participants) is >=
\* min_conviction, no signal for any other group, and each signal carries
\* the participant count, the total size and the trader list of its group.
C30_OneSignalPerGroup ==
    [][ \A mt \in MinTraders, mc \in MinConvictions :
          aggregate_signals(mt, mc) =>
            LET hs == AllHoldings(trader_scores, positions)
                keys == {KeyOf(hs[i]) : i \in DOMAIN hs}
                out == Val(signals')
                Count(key) == Cardinality(Participants(hs, key))
                Qualifies(key) ==
                    /\ Count(key) >= mt
                    /\ ~FracLT(Frac(Count(key), Len(positions)), Frac(mc, 100))
            IN  /\ \A key \in keys :
                      Cardinality(SignalsOf(out, key))
                          = IF Qualifies(key) THEN 1 ELSE 0
                /\ \A i \in DOMAIN out :
                      LET key == <<out[i].market_slug, out[i].direction>>
                      IN  /\ key \in keys
                          /\ out[i].num_traders = Count(key)
                          /\ out[i].total_size = SumValue(Group(hs, key))
                          /\ out[i].traders = Usernames(Group(hs, key))
      ]_vars

\* C20: recorded spend counts as drawdown.  Once the cumulative cost of the
\* recorded trades reaches drawdown_kill_switch_pct x initial balance, the
\* balance having moved by nothing else, the drawdown check of the next
\* evaluate_signal fails (and with it the switch is set and the decision is
\* kill_switched), whatever the realized P&L.
C20_SpendIsDrawdown ==
    (float_balance # None /\ OnlyTradesMovedBalance /\ SpentToThreshold)
        => ~FloatDrawdownPasses

\* the place of a signal's group in market_positions (order of insertion)
InsertionRank(sig) ==
    LET keys == GroupKeys(AllHoldings(trader_scores, positions), {})
    IN  CHOOSE k \in DOMAIN keys : keys[k] = <<sig.market_slug, sig.direction>>

\* two signals with the same conviction and the same total size
Tied(x, y) ==
    /\ ~FracLT(x.conviction, y.conviction)
    /\ ~FracLT(y.conviction, x.conviction)
    /\ x.total_size = y.total_size

\* C31: the output of aggregate_signals is ordered by conviction descending,
\* then total size descending, and signals equal on both keys stand in the
\* order in which their groups were first inserted.
C31_SortedStable ==
    signals # None =>
        \A i, j \in DOMAIN Val(signals) :
            i < j =>
                LET x == Val(signals)[i]
                    y == Val(signals)[j]
                IN  /\ ~FracLT(x.conviction, y.conviction)
                    /\ ~FracLT(y.conviction, x.conviction)
                           => x.total_size >= y.total_size
                    /\ Tied(x, y) => InsertionRank(x) < InsertionRank(y)

\* two signals tied on both keys came out, the one on m2, whose group was
\* inserted first, in front
C31_Witness ==
    /\ signals # None
    /\ Len(Val(signals)) = 2
    /\ Tied(Val(signals)[1], Val(signals)[2])
    /\ Val(signals)[1].market_slug = "m2"

\* no quotient of a signal has a zero denominator
Finite(sig) ==
    /\ sig.conviction.den > 0
    /\ sig.avg_entry_price.den > 0
    /\ sig.expected_edge.den > 0

\* self.positions has no wallet
NoParticipants == positions = << >>

\* the groups whose positions add up to zero shares
ZeroShareKeys ==
    LET hs == AllHoldings(trader_scores, positions)
    IN  {KeyOf(hs[i]) : i \in {j \in DOMAIN hs :
                                 SumShares(Group(hs, KeyOf(hs[j]))) = 0}}

\* C32: degenerate inputs give no signal and no undefined quotient: with no
\* participant the output is empty, a group whose total share quantity is
\* zero produces no signal, and no emitted signal holds a quotient with a
\* zero denominator.
C32_DegenerateNoSignal ==
    signals # None =>
        /\ NoParticipants => Val(signals) = << >>
        /\ \A i \in DOMAIN Val(signals) :
              /\ Finite(Val(signals)[i])
              /\ <<Val(signals)[i].market_slug, Val(signals)[i].direction>>
                    \notin ZeroShareKeys

\* the call of evaluate_entry_quality that returned, and its price move in
\* percent of the average entry: Move(k) is price_move >= k / 100
EntryReturned ==
    /\ returned # None
    /\ Val(call).fn = "evaluate_entry_quality"

MoveAtLeast(k) ==
    LET a == Val(call).avg_entry
    IN  100 * (Val(call).current_price * a.den - a.num) >= k * a.num

OutliersReturned ==
    /\ returned # None
    /\ Val(call).fn = "filter_outliers"

\* the participants whose z-score is above the threshold
Outliers ==
    {i \in DOMAIN Val(call).values :
        ZAbove(Val(call).values, i, Val(call).config.outlier_std_threshold)}

\* C35: outlier filtering removes exactly the participants whose z-score
\* magnitude exceeds outlier_std_threshold (one exactly at the threshold is
\* kept), and only in a sample of at least min_sample_size; with fewer
\* participants, or with all notionals equal, the list is returned
\* unchanged.
C35_OutliersRemoved ==
    OutliersReturned =>
        LET c == Val(call)
            keep == IF \/ Len(c.values) < c.config.min_sample_size
                       \/ Spread(c.values) = 0
                    THEN DOMAIN c.values
                    ELSE DOMAIN c.values \ Outliers
        IN  Val(returned) = Filtered(Masked(c.values, keep, 1),
                                     Masked(c.labels, keep, 1))

RegimeReturned ==
    /\ returned # None
    /\ Val(call).fn = "detect_market_regime"

\* C34: regime detection classifies every price series of at least 10
\* points by the ordered rules volatility > high_volatility_threshold ->
\* VOLATILE, else trend > 0.1 and choppiness < 0.3 -> TRENDING, else
\* choppiness > 0.6 -> CHOPPY, else CALM; only a series of fewer than 10
\* points is CALM without classification.
C34_RegimeClassified ==
    RegimeReturned =>
        Val(returned) =
            IF Len(Val(call).prices) < 10 THEN "calm"
            ELSE ClassifyRegime(ARSConfig,
                     LastPrices(Val(call).prices,
                                ARSConfig.volatility_lookback_periods))

ProcessReturned ==
    /\ returned # None
    /\ Val(call).fn = "process_signal"

\* raw x avgConsistency x (0.5 + 0.5 x regimeFactor) of the returned signal,
\* before the clamp
Unclamped ==
    LET r == Val(returned)
    IN  FracMul(FracMul(Frac(Min(Len(Val(call).supporting_traders), 10), 10),
                        r.avg_trader_consistency),
                Frac(10 + ARSConfig.regime_position_adjustments[r.regime], 20))

\* C37: the ARS conviction of process_signal is in [0, 1] and equals
\* min(participantCount / 10, 1) x avgConsistency x (0.5 + 0.5 x
\* regimeFactor) clamped to [0, 1], also under TRENDING, whose multiplier is
\* above 1; avgConsistency is 0.5 when no participant survives the
\* filtering, and with no supporting participant the ARS conviction is 0.
C37_ArsConviction ==
    ProcessReturned =>
        LET r == Val(returned)
        IN  /\ FracLE(Frac(0, 1), r.ars_conviction)
            /\ FracLE(r.ars_conviction, Frac(1, 1))
            /\ FracEq(r.ars_conviction,
                      FracMax(Frac(0, 1), FracMin(Frac(1, 1), Unclamped)))
            /\ r.raw_conviction
                  = Frac(Min(Len(Val(call).supporting_traders), 10), 10)
            /\ r.regime_adjustment
                  = ARSConfig.regime_position_adjustments[r.regime]
            /\ r.source_traders = << >> =>
                  FracEq(r.avg_trader_consistency, Frac(1, 2))
            /\ Val(call).supporting_traders = << >> =>
                  FracEq(r.ars_conviction, Frac(0, 1))

\* eleven steady winners in a trending market: 1 x 1 x 1.1 clamped to 1
C37_Witness ==
    /\ ProcessReturned
    /\ Len(Val(call).supporting_traders) = 11
    /\ Val(returned).regime = "trending"
    /\ FracLT(Frac(1, 1), Unclamped)
    /\ FracEq(Val(returned).ars_conviction, Frac(1, 1))

\* the signals that came out of aggregate_signals / filter_resolved_markets
Raw == Val(run_frame.raw_signals)
Active == Val(run_frame.active_signals)

\* how many of the first j raw signals are not resolved
ActiveUpTo(j) == Cardinality({k \in 1..j : ~Resolved(Raw[k])})

\* the (market, outcome) groups that pass aggregate_signals' two filters
\* with min_conviction = 0.05
Qualifying ==
    LET hs == AllHoldings(trader_scores, positions)
    IN  { KeyOf(hs[i]) : i \in { k \in DOMAIN hs :
            /\ Len(Group(hs, KeyOf(hs[k]))) >= run_frame.min_agreement
            /\ ~FracLT(Frac(Len(Group(hs, KeyOf(hs[k]))), Len(positions)),
                       Frac(5, 100)) } }

\* C33: settled markets are removed by a pass after aggregation and before
\* ARS scoring: the filtered list is the raw list without the signals priced
\* >= 0.98 or <= 0.02, in the raw list's order; filtering it again changes
\* nothing; ARS scoring works on the filtered list only; and aggregate_signals
\* itself emits a signal for every qualifying group, settled or not.
C33_FilterPass ==
    /\ run_frame.active_signals # None => run_frame.raw_signals # None
    /\ run_frame.scored_signals # None => run_frame.active_signals # None
    /\ run_frame.raw_signals # None =>
          \A key \in Qualifying :
              \E i \in DOMAIN Raw : /\ Raw[i].market_slug = key[1]
                                    /\ Raw[i].direction = key[2]
    /\ run_frame.active_signals # None =>
          /\ Len(Active) = ActiveUpTo(Len(Raw))
          /\ \A j \in DOMAIN Raw :
                ~Resolved(Raw[j]) => Active[ActiveUpTo(j)] = Raw[j]
          /\ FilterResolvedMarkets(Active) = Active
    /\ run_frame.scored_signals # None =>
          LET scored == Val(run_frame.scored_signals)
          IN  /\ Len(scored) = Len(Active)
              /\ \A i \in DOMAIN Active : \E j \in DOMAIN scored : scored[j] = Active[i]
              /\ \A j \in DOMAIN scored : ~Resolved(scored[j])
              /\ \A j \in DOMAIN Raw :
                    Resolved(Raw[j]) => "ars_score" \notin DOMAIN Raw[j]

\* a run whose raw list has a signal priced 0.98 and one priced 0.02, each
\* dropped, a dropped signal standing between two kept ones priced 0.97 and
\* 0.03
C33_Witness ==
    /\ run_frame.pc = "returned"
    /\ \E i, j, k \in DOMAIN Raw :
          /\ i < j /\ j < k
          /\ ~Resolved(Raw[i]) /\ Resolved(Raw[j]) /\ ~Resolved(Raw[k])
          /\ {Raw[i].current_price, Raw[k].current_price} = {97, 3}
    /\ \E i, j \in DOMAIN Raw : Raw[i].current_price = 98 /\ Raw[j].current_price = 2
    /\ Len(Active) = 2
    /\ Len(Val(run_frame.scored_signals)) = 2

\* a call of the trader has just returned or raised
TraderCalled(fn) ==
    /\ trade_result' # trade_result
    /\ Val(trade_result').fn = fn

NoOrderPlaced == kalshi_orders' = kalshi_orders

\* the transaction the AgentWallet answered propose_trade with
Answered == aw_transactions'[Len(aw_transactions')]

\* C38: propose_trade places a Kalshi order only when the AgentWallet
\* transaction status is COMPLETED or APPROVED; for AWAITING_APPROVAL it
\* returns pending_approval and for any other status rejected, with no order
\* placed; when the AgentWallet request raises it returns error and places
\* no order.
C38_OrderOnlyWhenApproved ==
    [][TraderCalled("propose_trade") =>
          LET out == Val(trade_result')
              status == Val(out.value).status
          IN  IF out.aw = "raised"
              THEN /\ status = "error"
                   /\ NoOrderPlaced
                   /\ aw_transactions' = aw_transactions
              ELSE /\ Len(aw_transactions') = Len(aw_transactions) + 1
                   /\ ~NoOrderPlaced <=>
                         Answered.status \in {Some("COMPLETED"), Some("APPROVED")}
                   /\ ~NoOrderPlaced => Len(kalshi_orders') = Len(kalshi_orders) + 1
                   /\ Answered.status = Some("AWAITING_APPROVAL") =>
                         status = "pending_approval"
                   /\ Answered.status \notin {Some("COMPLETED"), Some("APPROVED"),
                                              Some("AWAITING_APPROVAL")} =>
                         status = "rejected"]_vars

\* three proposals: one awaiting approval, one rejected, one approved; the
\* approved one is the only order
C38_Witness ==
    /\ Len(aw_transactions) = 3
    /\ aw_transactions[1].status = Some("AWAITING_APPROVAL")
    /\ aw_transactions[2].status = Some("REJECTED")
    /\ aw_transactions[3].status = Some("APPROVED")
    /\ Len(kalshi_orders) = 1
    /\ trade_result # None
    /\ Val(trade_result).n = 3
    /\ Val(Val(trade_result).value).status = "executed"

\* C39: propose_trade returns "executed" whenever the AgentWallet approves,
\* whether or not the Kalshi order succeeded; execute_approved_trade returns
\* "failed" when the order did not succeed, and "error" with no order placed
\* when the transaction is not APPROVED.
C39_ExecutedEvenIfOrderFailed ==
    [][/\ TraderCalled("propose_trade") /\ Val(trade_result').aw = "answered"
          /\ Answered.status \in {Some("COMPLETED"), Some("APPROVED")} =>
             LET value == Val(Val(trade_result').value)
             IN  /\ value.status = "executed"
                 /\ value.kalshi_order # None
                 /\ Val(value.kalshi_order).success
                       = kalshi_orders'[Len(kalshi_orders')].accepted
       /\ TraderCalled("execute_approved_trade") /\ Val(trade_result').aw = "answered" =>
             LET value == Val(Val(trade_result').value)
                 tx == aw_transactions[Val(trade_result').args.tx_id]
             IN  IF tx.status # Some("APPROVED")
                 THEN value.status = "error" /\ NoOrderPlaced
                 ELSE /\ Len(kalshi_orders') = Len(kalshi_orders) + 1
                      /\ value.status =
                            IF kalshi_orders'[Len(kalshi_orders')].accepted
                            THEN "executed" ELSE "failed"]_vars

\* a proposal the AgentWallet completed, its order refused by Kalshi and
\* reported as executed; then a proposal held for approval, approved on the
\* dashboard, its order refused as well and reported as failed
C39_Witness ==
    /\ Len(aw_transactions) = 2
    /\ aw_transactions[1].status = Some("COMPLETED")
    /\ aw_transactions[2].status = Some("APPROVED")
    /\ Len(kalshi_orders) = 2
    /\ ~kalshi_orders[1].accepted
    /\ ~kalshi_orders[2].accepted
    /\ trade_result # None
    /\ Val(trade_result).fn = "execute_approved_trade"
    /\ Val(trade_result).value # None
    /\ Val(trade_result).args.tx_id = 2
    /\ Val(Val(trade_result).value).status = "failed"

CachedPair == [signals |-> signal_cache.signals, traders |-> signal_cache.traders]

\* the cache has a timestamp less than cache_duration_minutes before now
Younger ==
    /\ signal_cache.last_updated # None
    /\ clock - Val(signal_cache.last_updated) < 5

\* C40: get_cached_or_fresh returns the cached signals without fetching
\* while the cache is younger than cache_duration_minutes and fetches
\* otherwise; a successful fetch replaces the cache and its timestamp; a
\* failed fetch returns the stale cache, contents and timestamp unchanged,
\* when the cache holds signals, and passes the error on when it is empty.
C40_SignalCache ==
    [][\A w \in Workers :
          /\ api_requests[w].pc = "entered" /\ api_requests'[w] # api_requests[w] =>
                IF Younger
                THEN /\ api_requests'[w].pc = "returned"
                     /\ api_requests'[w].fetch = "none"
                     /\ api_requests'[w].response = Some(CachedPair)
                     /\ signal_cache' = signal_cache
                ELSE api_requests'[w].pc = "fetching"
          /\ api_requests[w].pc = "fetching" /\ api_requests'[w] # api_requests[w] =>
                \/ /\ api_requests'[w].fetch = "returned"
                   /\ api_requests'[w].pc = "returned"
                   /\ api_requests'[w].response # None
                   /\ signal_cache'.signals = Val(api_requests'[w].response).signals
                   /\ signal_cache'.traders = Val(api_requests'[w].response).traders
                   /\ signal_cache'.last_updated = Some(api_requests[w].now)
                \/ /\ api_requests'[w].fetch = "raised"
                   /\ signal_cache' = signal_cache
                   /\ IF signal_cache.signals # << >>
                      THEN /\ api_requests'[w].pc = "returned"
                           /\ api_requests'[w].response = Some(CachedPair)
                      ELSE /\ api_requests'[w].pc = "raised"
                           /\ api_requests'[w].response = None]_vars

\* the cache filled at minute 0 and six minutes old; a request has fetched,
\* the fetch has failed, and the request has returned the stale signals
C40_Witness ==
    /\ clock = 6
    /\ signal_cache.signals = <<"sig_1">>
    /\ signal_cache.last_updated = Some(0)
    /\ \E w \in Workers :
          /\ api_requests[w].pc = "returned"
          /\ api_requests[w].fetch = "raised"
          /\ api_requests[w].now >= 5
          /\ api_requests[w].response
                = Some([signals |-> <<"sig_1">>, traders |-> <<"w1">>])

=============================================================================
